---- MODULE Spec2Model ----
(***************************************************************************)
(* Smart Safe: the three-factor unlock flow of the safe page (SafePage),   *)
(* the recognise / verify-pin routes it calls, the face matcher and the    *)
(* JSON face store, and the sensor pipeline (Socket.io hub + dashboard).   *)
(*                                                                         *)
(* Numbers: descriptor components and sensor readings are fixed-point      *)
(* integers in units of 1/Scale.  A Euclidean distance is kept as its      *)
(* square (the code's `sum`); Math.sqrt is monotone, so every comparison   *)
(* of two distances is a comparison of the two squares.                    *)
(***************************************************************************)
EXTENDS Integers, Sequences, FiniteSets, TLC

\* ------------------------------------------------------------------ bounds
MaxAttempts == 2
MaxVerify == 2
MaxReloads == 1

\* --------------------------------------------------------------- constants
\* one model tick of timer time, in ms
TickMs == 1000
\* setTimeout(..., 1000) of handleUnlock
FaceDelayMs == 1000
\* setTimeout(..., 3000) of the Verify handler
VoiceDelayMs == 3000
\* fixed-point unit: a reading r is kept as r * Scale
Scale == 100
\* threshold = 0.6, in units of 1/Scale
Threshold == 60
\* pin.length < 4
MinPinLen == 4

NoUser == "none"
NoDesc == <<>>
NoPin == <<>>

\* ------------------------------------------------------------ face matcher
RECURSIVE SumSqPadded(_, _, _)
\* the variant of the distance that runs over the longer of the two
\* descriptors, a missing component counting as 0
SumSqPadded(input, faceDescriptor, i) ==
  IF i > Len(input) /\ i > Len(faceDescriptor) THEN 0
  ELSE LET a == IF i > Len(input) THEN 0 ELSE input[i]
           b == IF i > Len(faceDescriptor) THEN 0 ELSE faceDescriptor[i]
       IN (a - b) * (a - b) + SumSqPadded(input, faceDescriptor, i + 1)

RECURSIVE SumSq(_, _, _)
\* the inner for loop: sum of diff*diff over i < min(|input|, |face|)
SumSq(input, faceDescriptor, i) ==
  IF i > Len(input) \/ i > Len(faceDescriptor) THEN 0
  ELSE (input[i] - faceDescriptor[i]) * (input[i] - faceDescriptor[i])
       + SumSq(input, faceDescriptor, i + 1)

NoMatch == [userId |-> NoUser, distance |-> -1]

\* the non-strict variant of the threshold test: distance <= threshold
AtOrBelowThreshold(d2) == d2 <= Threshold * Threshold

\* distance < threshold, on the squares
BelowThreshold(d2) == d2 < Threshold * Threshold

\* the variant of the best-match test in which a later template at the same distance wins
LaterTieWins(d2, best) ==
  BelowThreshold(d2) /\ (best = NoMatch \/ d2 <= best.distance)

\* if (distance < threshold) { if (!bestMatch || distance < bestMatch.distance) ... }
BetterMatch(d2, best) ==
  BelowThreshold(d2) /\ (best = NoMatch \/ d2 < best.distance)

\* the variant of the template read that serves the set loaded at start
LoadedAtStart(fs) == << [userId |-> "u1", descriptor |-> <<0, 0>>] >>

\* storage.getFaceData(): readFile(FACES_FILE, []), the file as it is now
getFaceData(fs) == fs

RECURSIVE MatchLoop(_, _, _, _)
MatchLoop(faceData, input, i, best) ==
  IF i > Len(faceData) THEN best
  ELSE LET d2 == SumSq(input, faceData[i].descriptor, 1)
       IN MatchLoop(faceData, input, i + 1,
                    IF BetterMatch(d2, best)
                    THEN [userId |-> faceData[i].userId, distance |-> d2]
                    ELSE best)

recognizeFaceFromDescriptor(faceData, descriptor) ==
  MatchLoop(faceData, descriptor, 1, NoMatch)

\* ------------------------------------------------------------- credentials
\* bcrypt.hash / bcrypt.compare: the hash is not the PIN, and compare accepts
\* exactly the PIN that was hashed
hashPassword(p) == <<"bcrypt", p>>
verifyPassword(p, hash) == hash = hashPassword(p)

\* ------------------------------------------------------------------- state
VARIABLES
  \* SafePage (React state, refs, localStorage, pending callbacks)
  safeState,      \* useState<SafeState>
  pin,            \* useState pin (digits typed into the unlock PIN input)
  ls,             \* localStorage "recognizedUserId", with the attempt that wrote it
  attempt,        \* number of handleUnlock runs so far (history)
  reloads,        \* number of page loads after the first (history)
  face,           \* per handleUnlock run: its setTimeout callback's position
  verify,         \* per Verify click: the onClick handler's position
  recorder,       \* mediaRecorderRef.current: "none" | "recording" | "inactive"
  lockPending,    \* handleLock runs awaiting the actuator fetch
  actuator,       \* fetches of the ESP32 URL issued, in order
  posted,         \* POST /api/events requests issued by the safe page, in order
  pendingFetch,   \* fire-and-forget fetches of the safe page, each with its outcome so far
  \* SafePage, setup flow
  setupMode,      \* useState<SetupMode>
  setupUserId,    \* useState setupUserId (NoUser for null)
  lsUserId,       \* localStorage "userId" (NoUser when absent)
  setupPin, confirmPin, \* the two PIN inputs of the setup flow
  setupSession,   \* number of handleSetup runs so far (history)
  setupTasks,     \* completeFaceSetup / completePhraseSetup runs: position and closure
  minted,         \* number of "user-" + Date.now() ids minted so far
  \* persistence (data/users.json, data/faces.json, data/events.json)
  users, faces, events,
  \* face store / matcher calls
  lastMatch,      \* what the last recognizeFaceFromDescriptor call returned
  lastOp,         \* the last store call: its arguments and what it found (history)
  lastSaved,      \* per userId: the descriptor of its last saveFaceData (history)
  lastCall,       \* the last route request: body, response, stores before it (history)
  \* AdminDashboard (refs, state) and the Socket.io hub of server.ts
  now,            \* Date.now()
  accelBuffer,    \* accelBufferRef.current
  lastMovementEvent, \* lastMovementEventRef.current
  smoothed,       \* what the last smoothAccelerometer call returned
  rawAccel,       \* every (x, y, z) passed to smoothAccelerometer, in order (history)
  handled,        \* every sample handleSensorData ran on, with its time (history)
  accelData, gyroData, \* the two chart series (labels left out)
  dashPosted,     \* POST /api/events requests issued by the dashboard, in order
  accidentCount, theftDetected,
  sensorDataStore,\* server.ts sensorDataStore
  received,       \* number of sensor-data messages the hub has handled (history)
  emitted,        \* io.emit calls of the hub, in order
  ioQueue,        \* sensor-data broadcasts not yet delivered to the dashboard
  connected,      \* the sockets connected to the hub
  thrown,         \* number of hub handler runs that ended in a TypeError (history)
  joinedAt,       \* value of received when a socket last connected (history)
  calls,          \* storage calls in flight, each with what it read (and when)
  \* environment
  budget          \* store calls / sensor messages the environment still issues

setupVars == <<setupMode, setupUserId, lsUserId, setupPin, confirmPin, setupSession,
               setupTasks, minted>>
safeVars == <<safeState, pin, ls, attempt, reloads, face, verify, recorder,
              lockPending, actuator, posted, pendingFetch, setupVars>>
storeVars == <<users, faces, events>>
matchVars == <<lastMatch, lastOp, lastSaved, lastCall, calls>>
dashVars == <<accelBuffer, lastMovementEvent, smoothed, rawAccel, handled,
              accelData, gyroData, dashPosted, accidentCount, theftDetected>>
hubVars == <<sensorDataStore, received, emitted, ioQueue, connected, thrown,
             joinedAt>>
sensorVars == <<now, dashVars, hubVars>>
vars == <<safeVars, storeVars, matchVars, sensorVars, budget>>

\* ------------------------------------------------------------ event store
RECURSIVE InsertDesc(_, _)
\* place e after every entry whose timestamp is >= e's (stable, newest first)
InsertDesc(sorted, e) ==
  IF sorted = <<>> THEN <<e>>
  ELSE IF Head(sorted).timestamp >= e.timestamp
       THEN <<Head(sorted)>> \o InsertDesc(Tail(sorted), e)
       ELSE <<e>> \o sorted

RECURSIVE SortDesc(_)
\* events.sort((a, b) => b.timestamp - a.timestamp)
SortDesc(evs) ==
  IF evs = <<>> THEN <<>>
  ELSE InsertDesc(SortDesc(SubSeq(evs, 1, Len(evs) - 1)), evs[Len(evs)])

\* storage.getEvents(limit)
getEvents(evs, limit) ==
  LET sorted == SortDesc(evs)
  IN IF limit > 0 /\ limit < Len(sorted) THEN SubSeq(sorted, 1, limit) ELSE sorted

RECURSIVE MaxTimestamp(_)
MaxTimestamp(evs) ==
  IF evs = <<>> THEN 0
  ELSE LET m == MaxTimestamp(Tail(evs))
       IN IF Head(evs).timestamp > m THEN Head(evs).timestamp ELSE m

\* the variant of storage.createEvent that writes the new event alone
NewEventOnly(evs, type, userId, reason, att) ==
  << [type |-> type, userId |-> userId, reason |-> reason, att |-> att,
      timestamp |-> MaxTimestamp(evs) + 1] >>

\* storage.createEvent: read the log through getEvents, push, write back.
\* The timestamp is the server clock, which has moved past every stored one.
createEvent(evs, type, userId, reason, att) ==
  Append(getEvents(evs, 0),
         [type |-> type, userId |-> userId, reason |-> reason, att |-> att,
          timestamp |-> MaxTimestamp(evs) + 1])

\* storage.getUserById: users.find(u => u.id === id) || null
NoRecord == [id |-> NoUser, pinHash |-> <<>>, voicePhrase |-> "", faceDescriptor |-> NoDesc]
RECURSIVE getUserById(_, _)
getUserById(us, id) ==
  IF us = <<>> THEN NoRecord
  ELSE IF Head(us).id = id THEN Head(us) ELSE getUserById(Tail(us), id)

\* ------------------------------------------------------------ safe page
\* what the operator can put in front of the camera / type into the PIN input
Probes == { <<10, 0>>, <<200, 10>>, <<500, 500>> }
Pins == { <<1, 2, 3, 4>>, <<9, 9, 9, 9>>, <<1, 2>> }

\* the store the safe page runs against: u1 fully enrolled, u2 with a face
\* template only (face registered, PIN step never completed)
EnrolledUsers ==
  << [id |-> "u1", pinHash |-> hashPassword(<<1, 2, 3, 4>>),
      voicePhrase |-> "open sesame", faceDescriptor |-> <<0, 0>>] >>
EnrolledFaces ==
  << [userId |-> "u1", descriptor |-> <<0, 0>>],
     [userId |-> "u2", descriptor |-> <<200, 0>>] >>

\* process.env.NEXT_PUBLIC_ESP32_URL is set in a deployed safe
esp32Url == TRUE

FaceTicks == FaceDelayMs \div TickMs
VoiceTicks == VoiceDelayMs \div TickMs

IdleFace == [pc |-> "idle", rem |-> 0, desc |-> NoDesc, st |-> 0, uid |-> NoUser, res |-> "none"]
NoLs == [user |-> NoUser, att |-> 0]

FaceLive(a) == face[a].pc \in {"timer", "detect", "fetch", "resp"}
VerifyLive(i) == verify[i].pc \in {"fetch", "resp", "timer", "analyze"}

\* stopVideo(); setSafeState("locked") of the face callback's failure paths
FaceFail(a, why) ==
  /\ face' = [face EXCEPT ![a] = [@ EXCEPT !.pc = "done", !.rem = 0, !.res = why]]
  /\ safeState' = "locked"

\* handleUnlock, up to and including setTimeout(cb, 1000)
HandleUnlock ==
  /\ UNCHANGED <<matchVars, sensorVars, setupVars, budget, pendingFetch>>
  /\ safeState = "locked"
  /\ attempt < MaxAttempts
  /\ attempt' = attempt + 1
  /\ safeState' = "unlocking"
  /\ face' = [face EXCEPT ![attempt + 1] = [IdleFace EXCEPT !.pc = "timer", !.rem = FaceTicks]]
  /\ UNCHANGED <<pin, ls, reloads, verify, recorder, lockPending, actuator, posted, storeVars>>

\* the timer callback: captureAndProcess() and the videoRef check, then the
\* face-api detection is started.  The <video> element is not rendered while
\* safeState is "unlocked", so videoRef.current is null then.
FaceTimerFire(a) ==
  /\ UNCHANGED <<matchVars, sensorVars, setupVars, budget, pendingFetch>>
  /\ face[a].pc = "timer" /\ face[a].rem = 0
  /\ \E captured \in BOOLEAN :
       /\ safeState = "unlocked" => ~captured
       /\ IF captured
          THEN /\ face' = [face EXCEPT ![a].pc = "detect"]
               /\ UNCHANGED safeState
          ELSE FaceFail(a, "capture")
  /\ UNCHANGED <<pin, ls, attempt, reloads, verify, recorder, lockPending, actuator, posted, storeVars>>

\* detectSingleFace(...) resolves: nothing, an exception, or a descriptor that
\* is sent to /api/face/recognize
FaceDetected(a) ==
  /\ UNCHANGED <<matchVars, sensorVars, setupVars, budget, pendingFetch>>
  /\ face[a].pc = "detect"
  /\ \/ FaceFail(a, "noface")
     \/ FaceFail(a, "error")
     \/ \E d \in Probes :
          /\ face' = [face EXCEPT ![a] = [@ EXCEPT !.pc = "fetch", !.desc = d]]
          /\ UNCHANGED safeState
  /\ UNCHANGED <<pin, ls, attempt, reloads, verify, recorder, lockPending, actuator, posted, storeVars>>

\* POST /api/face/recognize
RecognizeRoute(a) ==
  /\ UNCHANGED <<matchVars, sensorVars, setupVars, budget, pendingFetch>>
  /\ face[a].pc = "fetch"
  /\ LET match == recognizeFaceFromDescriptor(getFaceData(faces), face[a].desc)
     IN IF match = NoMatch
        THEN /\ events' = createEvent(events, "unauthorized_face", NoUser,
                                      "No matching face found", a)
             /\ face' = [face EXCEPT ![a] = [@ EXCEPT !.pc = "resp", !.st = 401]]
        ELSE /\ events' = events
             /\ face' = [face EXCEPT ![a] = [@ EXCEPT !.pc = "resp", !.st = 200,
                                                     !.uid = match.userId]]
  /\ UNCHANGED <<safeState, pin, ls, attempt, reloads, verify, recorder, lockPending,
                 actuator, posted, users, faces>>

\* the rest of the face callback, after await fetch(...)
RecognizeResponse(a) ==
  /\ UNCHANGED <<matchVars, sensorVars, setupVars, budget, pendingFetch>>
  /\ face[a].pc = "resp"
  /\ IF face[a].st # 200
     THEN /\ FaceFail(a, "unrecognised")
          /\ UNCHANGED <<ls, pin>>
     ELSE /\ ls' = [user |-> face[a].uid, att |-> a]
          /\ pin' = NoPin
          /\ face' = [face EXCEPT ![a] = [@ EXCEPT !.pc = "done", !.res = "ok"]]
          /\ UNCHANGED safeState
  /\ UNCHANGED <<attempt, reloads, verify, recorder, lockPending, actuator, posted, storeVars>>

\* onChange of the PIN input, rendered while safeState is "unlocking"
TypePin(p) ==
  /\ UNCHANGED <<matchVars, sensorVars, setupVars, budget, pendingFetch>>
  /\ safeState = "unlocking"
  /\ p # pin
  /\ pin' = p
  /\ UNCHANGED <<safeState, ls, attempt, reloads, face, verify, recorder, lockPending,
                 actuator, posted, storeVars>>

\* the variant of the Verify button that takes a PIN of any length
EnabledForAnyPin == safeState = "unlocking"

\* the Verify button is rendered while safeState is "unlocking" and is
\* disabled while pin.length < 4
VerifyEnabled == safeState = "unlocking" /\ Len(pin) >= MinPinLen

\* onClick of Verify, up to the fetch of /api/face/verify-pin
VerifyClick ==
  /\ UNCHANGED <<matchVars, sensorVars, setupVars, budget, pendingFetch>>
  /\ VerifyEnabled
  /\ Len(verify) < MaxVerify
  /\ ls.user # NoUser
  /\ verify' = Append(verify, [att |-> attempt, faceAtt |-> ls.att, user |-> ls.user,
                               pin |-> pin, pc |-> "fetch", rem |-> 0, st |-> 0,
                               audio |-> FALSE])
  /\ UNCHANGED <<safeState, pin, ls, attempt, reloads, face, recorder, lockPending,
                 actuator, posted, storeVars>>

\* POST /api/face/verify-pin
VerifyPinStatus(us, userId, p) ==
  LET user == getUserById(us, userId)
  IN IF userId = NoUser \/ p = NoPin THEN 400
     ELSE IF user = NoRecord THEN 404
     ELSE IF user.pinHash = <<>> THEN 400
     ELSE IF ~verifyPassword(p, user.pinHash) THEN 401
     ELSE 200

VerifyPinRoute(i) ==
  /\ UNCHANGED <<matchVars, sensorVars, setupVars, budget, pendingFetch>>
  /\ i \in DOMAIN verify
  /\ verify[i].pc = "fetch"
  /\ LET st == VerifyPinStatus(users, verify[i].user, verify[i].pin)
     IN /\ verify' = [verify EXCEPT ![i] = [@ EXCEPT !.pc = "resp", !.st = st]]
        /\ events' = IF st = 401
                     THEN createEvent(events, "unauthorized_face", verify[i].user,
                                      "Invalid PIN", verify[i].att)
                     ELSE events
  /\ UNCHANGED <<safeState, pin, ls, attempt, reloads, face, recorder, lockPending,
                 actuator, posted, users, faces>>

\* setPin(""); stopVideo(); setSafeState("locked"); removeItem("recognizedUserId")
BackToLocked ==
  /\ pin' = NoPin
  /\ safeState' = "locked"
  /\ ls' = NoLs

\* the Verify handler after await fetch: rejected, or startRecording() and
\* setTimeout(cb, 3000).  startRecording swallows a getUserMedia failure and
\* then leaves mediaRecorderRef as it was.
VerifyPinResponse(i) ==
  /\ UNCHANGED <<matchVars, sensorVars, setupVars, budget, pendingFetch>>
  /\ i \in DOMAIN verify
  /\ verify[i].pc = "resp"
  /\ IF verify[i].st # 200
     THEN /\ BackToLocked
          /\ verify' = [verify EXCEPT ![i].pc = "rejected"]
          /\ UNCHANGED recorder
     ELSE /\ \E mic \in BOOLEAN : recorder' = IF mic THEN "recording" ELSE recorder
          /\ verify' = [verify EXCEPT ![i] = [@ EXCEPT !.pc = "timer", !.rem = VoiceTicks]]
          /\ UNCHANGED <<pin, safeState, ls>>
  /\ UNCHANGED <<attempt, reloads, face, lockPending, actuator, posted, storeVars>>

\* the voice timer callback up to the await in stopRecording(): an inactive
\* or missing recorder resolves false at once
VoiceTimerFire(i) ==
  /\ UNCHANGED <<matchVars, sensorVars, setupVars, budget, pendingFetch>>
  /\ i \in DOMAIN verify
  /\ verify[i].pc = "timer" /\ verify[i].rem = 0
  /\ IF recorder = "recording"
     THEN /\ recorder' = "inactive"
          /\ verify' = [verify EXCEPT ![i].pc = "analyze"]
          /\ UNCHANGED <<pin, safeState, ls>>
     ELSE /\ BackToLocked
          /\ verify' = [verify EXCEPT ![i].pc = "silent"]
          /\ UNCHANGED recorder
  /\ UNCHANGED <<attempt, reloads, face, lockPending, actuator, posted, storeVars>>

\* a fetch whose promise nobody awaits, just issued
Fetch(kind) == [kind |-> kind, st |-> "pending"]

\* fetch("/api/events", {type: "unlock", ...}) -- not awaited
PostUnlock(t) ==
  Append(posted, [type |-> "unlock", userId |-> t.user, att |-> t.att])

\* fetch(`${esp32Url}90`) -- not awaited
OpenActuator(t) ==
  IF esp32Url
  THEN Append(actuator, [cmd |-> "open", att |-> t.att, faceAtt |-> t.faceAtt,
                         cur |-> attempt])
  ELSE actuator

\* onstop + hasAudioContent resolve; the rest of the voice timer callback
VoiceAnalyzed(i) ==
  /\ UNCHANGED <<matchVars, sensorVars, setupVars, budget>>
  /\ i \in DOMAIN verify
  /\ verify[i].pc = "analyze"
  /\ \E hasAudio \in BOOLEAN :
       IF hasAudio
       THEN /\ posted' = PostUnlock(verify[i])
            /\ actuator' = OpenActuator(verify[i])
            /\ pendingFetch' = pendingFetch \o <<Fetch("unlock-event")>>
                                 \o (IF esp32Url THEN <<Fetch("open")>> ELSE <<>>)
            /\ safeState' = "unlocked"
            /\ pin' = NoPin
            /\ ls' = NoLs
            /\ verify' = [verify EXCEPT ![i] = [@ EXCEPT !.pc = "opened", !.audio = TRUE]]
       ELSE /\ BackToLocked
            /\ verify' = [verify EXCEPT ![i].pc = "silent"]
            /\ UNCHANGED <<posted, actuator, pendingFetch>>
  /\ UNCHANGED <<attempt, reloads, face, recorder, lockPending, storeVars>>

\* handleLock up to await fetch(`${ESP32_URL}-90`)
HandleLock ==
  /\ UNCHANGED <<matchVars, sensorVars, setupVars, budget, pendingFetch>>
  /\ safeState = "unlocked"
  /\ safeState' = "locked"
  /\ actuator' = Append(actuator, [cmd |-> "lock", att |-> attempt, faceAtt |-> attempt,
                                   cur |-> attempt])
  /\ lockPending' = lockPending + 1
  /\ UNCHANGED <<pin, ls, attempt, reloads, face, verify, recorder, posted, storeVars>>

\* the actuator fetch settles: resolved, handleLock posts the lock event;
\* rejected (network error), handleLock ends there
LockActuatorSettled ==
  /\ UNCHANGED <<matchVars, sensorVars, setupVars, budget>>
  /\ lockPending > 0
  /\ lockPending' = lockPending - 1
  /\ \E ok \in BOOLEAN :
       /\ posted' = IF ok
                    THEN Append(posted, [type |-> "lock", userId |-> NoUser, att |-> attempt])
                    ELSE posted
       /\ pendingFetch' = Append(pendingFetch,
                                 IF ok THEN Fetch("lock-event")
                                 ELSE [kind |-> "lock", st |-> "failed"])
  /\ UNCHANGED <<safeState, pin, ls, attempt, reloads, face, verify, recorder, actuator, storeVars>>

\* one TickMs of timer time passes; a due timer runs before time moves on
TimerDue ==
  \/ \E a \in DOMAIN face : face[a].pc = "timer" /\ face[a].rem = 0
  \/ \E i \in DOMAIN verify : verify[i].pc = "timer" /\ verify[i].rem = 0
TimerPending ==
  \/ \E a \in DOMAIN face : face[a].pc = "timer"
  \/ \E i \in DOMAIN verify : verify[i].pc = "timer"
Tick ==
  /\ UNCHANGED <<matchVars, sensorVars, setupVars, budget, pendingFetch>>
  /\ TimerPending /\ ~TimerDue
  /\ face' = [a \in DOMAIN face |->
                IF face[a].pc = "timer" THEN [face[a] EXCEPT !.rem = @ - 1] ELSE face[a]]
  /\ verify' = [i \in DOMAIN verify |->
                IF verify[i].pc = "timer" THEN [verify[i] EXCEPT !.rem = @ - 1] ELSE verify[i]]
  /\ UNCHANGED <<safeState, pin, ls, attempt, reloads, recorder, lockPending, actuator,
                 posted, storeVars>>

\* the page is loaded again: React state and refs start from their useState /
\* useRef initial values, pending callbacks are gone, localStorage stays
Reload ==
  /\ UNCHANGED <<matchVars, sensorVars, budget>>
  /\ reloads < MaxReloads
  /\ setupMode' = "face"
  /\ setupUserId' = NoUser
  /\ setupPin' = NoPin
  /\ confirmPin' = NoPin
  /\ setupTasks' = [k \in DOMAIN setupTasks |->
                       IF setupTasks[k].pc \in {"fetch", "resp", "timer"}
                       THEN [setupTasks[k] EXCEPT !.pc = "gone"]
                       ELSE setupTasks[k]]
  /\ UNCHANGED <<lsUserId, setupSession, minted>>
  /\ reloads' = reloads + 1
  /\ safeState' = "locked"
  /\ pin' = NoPin
  /\ recorder' = "none"
  /\ lockPending' = 0
  /\ face' = [a \in DOMAIN face |->
                IF FaceLive(a) THEN [face[a] EXCEPT !.pc = "gone", !.rem = 0] ELSE face[a]]
  /\ verify' = [i \in DOMAIN verify |->
                  IF VerifyLive(i) THEN [verify[i] EXCEPT !.pc = "gone", !.rem = 0]
                  ELSE verify[i]]
  /\ pendingFetch' = [k \in DOMAIN pendingFetch |->
                         IF pendingFetch[k].st = "pending"
                         THEN [pendingFetch[k] EXCEPT !.st = "dropped"]
                         ELSE pendingFetch[k]]
  /\ UNCHANGED <<ls, attempt, actuator, posted, storeVars>>

\* the variant of the .catch handlers that takes a failed call back
RevertOnFailure(state, ok) == IF ok THEN state ELSE "locked"

\* safeState after a fire-and-forget fetch settles: .catch((err) =>
\* console.error(...)) on the unlock path, nothing at all after handleLock's POST
OnFetchSettled(state, ok) == state

\* a fire-and-forget fetch (unlock event, actuator open, lock event) settles
FetchSettled(k) ==
  /\ UNCHANGED <<matchVars, sensorVars, setupVars, budget>>
  /\ k \in DOMAIN pendingFetch
  /\ pendingFetch[k].st = "pending"
  /\ \E ok \in BOOLEAN :
       /\ pendingFetch' = [pendingFetch EXCEPT ![k].st = IF ok THEN "ok" ELSE "failed"]
       /\ safeState' = OnFetchSettled(safeState, ok)
  /\ UNCHANGED <<pin, ls, attempt, reloads, face, verify, recorder, lockPending, actuator,
                 posted, storeVars>>

SettleFetch == \E k \in DOMAIN pendingFetch : FetchSettled(k)

\* the safe page after mount
\* the setup flow before its first use in this browser
SetupIdle ==
  /\ setupMode = "face"
  /\ setupUserId = NoUser
  /\ lsUserId = NoUser
  /\ setupPin = NoPin
  /\ confirmPin = NoPin
  /\ setupSession = 0
  /\ setupTasks = <<>>
  /\ minted = 0

SafeIdle ==
  /\ safeState = "locked"
  /\ pin = NoPin
  /\ ls = NoLs
  /\ attempt = 0
  /\ reloads = 0
  /\ face = [a \in 1..MaxAttempts |-> IdleFace]
  /\ verify = <<>>
  /\ recorder = "none"
  /\ lockPending = 0
  /\ actuator = <<>>
  /\ posted = <<>>
  /\ pendingFetch = <<>>
  /\ SetupIdle

StoreUsers == {"u1", "u2"}
NoOp == [op |-> "none", userId |-> NoUser, descriptor |-> NoDesc,
         lenBefore |-> 0, existed |-> FALSE, prev |-> NoDesc]

NoCall == [route |-> "none"]

\* no matcher, face store or route call made yet
MatcherIdle ==
  /\ lastMatch = NoMatch
  /\ lastOp = NoOp
  /\ lastSaved = [u \in StoreUsers |-> NoDesc]
  /\ lastCall = NoCall
  /\ calls = <<>>

\* Date.now() when the dashboard mounts (any value above the cooldown: the
\* epoch clock is far above lastMovementEventRef's initial 0)
StartTime == 10000
NoSmoothed == [x |-> 0, y |-> 0, z |-> 0, n |-> 0]

\* the dashboard after mount
DashIdle ==
  /\ now = StartTime
  /\ accelBuffer = [x |-> <<>>, y |-> <<>>, z |-> <<>>]
  /\ lastMovementEvent = 0
  /\ smoothed = NoSmoothed
  /\ rawAccel = <<>>
  /\ handled = <<>>
  /\ accelData = <<>>
  /\ gyroData = <<>>
  /\ dashPosted = <<>>
  /\ accidentCount = 0
  /\ theftDetected = FALSE

\* the hub after start, once the dashboard and one phone have connected
HubIdle ==
  /\ sensorDataStore = <<>>
  /\ received = 0
  /\ emitted = <<>>
  /\ ioQueue = <<>>
  /\ connected = {"dash", "mobile"}
  /\ thrown = 0
  /\ joinedAt = 0

SensorIdle == DashIdle /\ HubIdle

Init ==
  /\ SafeIdle
  /\ users = EnrolledUsers
  /\ faces = EnrolledFaces
  /\ events = <<>>
  /\ MatcherIdle
  /\ SensorIdle
  /\ budget = 0

Next ==
  \/ HandleUnlock
  \/ \E a \in 1..MaxAttempts : FaceTimerFire(a)
  \/ \E a \in 1..MaxAttempts : FaceDetected(a)
  \/ \E a \in 1..MaxAttempts : RecognizeRoute(a)
  \/ \E a \in 1..MaxAttempts : RecognizeResponse(a)
  \/ \E p \in Pins : TypePin(p)
  \/ VerifyClick
  \/ \E i \in 1..MaxVerify : VerifyPinRoute(i)
  \/ \E i \in 1..MaxVerify : VerifyPinResponse(i)
  \/ \E i \in 1..MaxVerify : VoiceTimerFire(i)
  \/ \E i \in 1..MaxVerify : VoiceAnalyzed(i)
  \/ HandleLock
  \/ LockActuatorSettled
  \/ Tick
  \/ Reload

\* In Spec the fire-and-forget fetches stay unsettled (one of their outcomes);
\* SpecDecide below adds their settling, which no handler of the page reads.
Spec == Init /\ [][Next]_vars

\* the unlock and lock decisions alone: the page right after a successful
\* face match of its first attempt, with no further attempt and no reload
DecideInit ==
  /\ safeState = "unlocking"
  /\ pin = NoPin
  /\ ls = [user |-> "u1", att |-> 1]
  /\ attempt = 1
  /\ reloads = 0
  /\ face = [a \in 1..MaxAttempts |->
               IF a = 1
               THEN [pc |-> "done", rem |-> 0, desc |-> <<10, 0>>, st |-> 200,
                     uid |-> "u1", res |-> "ok"]
               ELSE IdleFace]
  /\ verify = <<>>
  /\ recorder = "none"
  /\ lockPending = 0
  /\ actuator = <<>>
  /\ posted = <<>>
  /\ pendingFetch = <<>>
  /\ SetupIdle
  /\ users = EnrolledUsers
  /\ faces = EnrolledFaces
  /\ events = <<>>
  /\ MatcherIdle
  /\ SensorIdle
  /\ budget = 0

DecideNext ==
  \/ \E p \in Pins : TypePin(p)
  \/ VerifyClick
  \/ \E i \in 1..MaxVerify : VerifyPinRoute(i)
  \/ \E i \in 1..MaxVerify : VerifyPinResponse(i)
  \/ \E i \in 1..MaxVerify : VoiceTimerFire(i)
  \/ \E i \in 1..MaxVerify : VoiceAnalyzed(i)
  \/ HandleLock
  \/ LockActuatorSettled
  \/ Tick
  \/ SettleFetch

SpecDecide == DecideInit /\ [][DecideNext]_vars

\* the PIN stage for either recognised user: u1 is fully enrolled, u2 has a
\* user record (created from the admin page) with no pinHash
PinUsers ==
  Append(EnrolledUsers,
         [id |-> "u2", pinHash |-> <<>>, voicePhrase |-> "", faceDescriptor |-> <<200, 0>>])

PinInit ==
  /\ safeState = "unlocking"
  /\ pin = NoPin
  /\ \E u \in {"u1", "u2"} :
       /\ ls = [user |-> u, att |-> 1]
       /\ face = [a \in 1..MaxAttempts |->
                    IF a = 1
                    THEN [pc |-> "done", rem |-> 0,
                          desc |-> IF u = "u1" THEN <<10, 0>> ELSE <<200, 10>>,
                          st |-> 200, uid |-> u, res |-> "ok"]
                    ELSE IdleFace]
  /\ attempt = 1
  /\ reloads = 0
  /\ verify = <<>>
  /\ recorder = "none"
  /\ lockPending = 0
  /\ actuator = <<>>
  /\ posted = <<>>
  /\ pendingFetch = <<>>
  /\ SetupIdle
  /\ users = PinUsers
  /\ faces = EnrolledFaces
  /\ events = <<>>
  /\ MatcherIdle
  /\ SensorIdle
  /\ budget = 0

SpecPin == PinInit /\ [][DecideNext]_vars

\* what runs without the operator: routes, awaited responses, timers, fetches
\* settling.  The operator's typing and clicks are under no obligation.
PageRuns ==
  \/ \E i \in 1..MaxVerify : VerifyPinRoute(i)
  \/ \E i \in 1..MaxVerify : VerifyPinResponse(i)
  \/ \E i \in 1..MaxVerify : VoiceTimerFire(i)
  \/ \E i \in 1..MaxVerify : VoiceAnalyzed(i)
  \/ LockActuatorSettled
  \/ Tick
  \/ SettleFetch

SpecDecideFair == DecideInit /\ [][DecideNext]_vars /\ WF_vars(PageRuns)

\* ------------------------------------------------- face store and matcher
\* Descriptor components range over values a Float32Array holds exactly (the
\* client computes descriptors as Float32Array), so new Float32Array(d) and
\* Array.from(d) keep them; the arithmetic of the matcher is exact.
StoreBudget == 4

\* what the register route and the recognise route are called with
StoreDescriptors == { <<0>>, <<60>>, <<>> }
StoreQueries == { <<30>>, <<59>>, <<60>>, <<61>>, <<>> }

RECURSIVE FindIndex(_, _, _)
\* faces.findIndex((f) => f.userId === userId), 0 where the code has -1
FindIndex(fs, userId, i) ==
  IF i > Len(fs) THEN 0
  ELSE IF fs[i].userId = userId THEN i
  ELSE FindIndex(fs, userId, i + 1)

\* the variant of storage.saveFaceData that always pushes
AlwaysPush(fs, userId, descriptor) ==
  Append(fs, [userId |-> userId, descriptor |-> descriptor])

\* storage.saveFaceData up to writeFile(FACES_FILE, faces)
storageSaveFaceData(fs, userId, descriptor) ==
  LET existingIndex == FindIndex(fs, userId, 1)
      faceData == [userId |-> userId, descriptor |-> descriptor]
  IN IF existingIndex >= 1
     THEN [fs EXCEPT ![existingIndex] = faceData]
     ELSE Append(fs, faceData)

RECURSIVE UserIndex(_, _, _)
\* users.findIndex((u) => u.id === id), 0 where the code has -1
UserIndex(us, id, i) ==
  IF i > Len(us) THEN 0
  ELSE IF us[i].id = id THEN i
  ELSE UserIndex(us, id, i + 1)

\* storage.updateUser(userId, { faceDescriptor: descriptor })
updateUser(us, id, descriptor) ==
  LET index == UserIndex(us, id, 1)
  IN IF index = 0 THEN us
     ELSE [us EXCEPT ![index].faceDescriptor = descriptor]

\* storage.deleteFaceData: faces.filter((f) => f.userId !== userId)
storageDeleteFaceData(fs, userId) ==
  SelectSeq(fs, LAMBDA f : f.userId # userId)

StoredDescriptor(fs, userId) ==
  IF FindIndex(fs, userId, 1) = 0 THEN NoDesc
  ELSE fs[FindIndex(fs, userId, 1)].descriptor

\* saveFaceData of face-api-server.ts, run to completion
SaveFaceData(userId, descriptor) ==
  /\ budget > 0
  /\ budget' = budget - 1
  /\ lastOp' = [op |-> "save", userId |-> userId, descriptor |-> descriptor,
                lenBefore |-> Len(faces),
                existed |-> FindIndex(faces, userId, 1) >= 1,
                prev |-> StoredDescriptor(faces, userId)]
  /\ IF Len(descriptor) = 0
     THEN UNCHANGED <<faces, users, lastSaved>>
     ELSE /\ faces' = storageSaveFaceData(faces, userId, descriptor)
          /\ users' = updateUser(users, userId, descriptor)
          /\ lastSaved' = [lastSaved EXCEPT ![userId] = descriptor]
  /\ UNCHANGED <<safeVars, calls, events, lastMatch, lastCall, sensorVars>>

\* storage.deleteFaceData, run to completion
DeleteFaceData(userId) ==
  /\ budget > 0
  /\ budget' = budget - 1
  /\ lastOp' = [op |-> "delete", userId |-> userId, descriptor |-> NoDesc,
                lenBefore |-> Len(faces),
                existed |-> FindIndex(faces, userId, 1) >= 1,
                prev |-> StoredDescriptor(faces, userId)]
  /\ faces' = storageDeleteFaceData(faces, userId)
  /\ lastSaved' = [lastSaved EXCEPT ![userId] = NoDesc]
  /\ UNCHANGED <<safeVars, calls, users, events, lastMatch, lastCall, sensorVars>>

\* one call of recognizeFaceFromDescriptor
RecognizeFace(descriptor) ==
  /\ budget > 0
  /\ budget' = budget - 1
  /\ lastMatch' = recognizeFaceFromDescriptor(getFaceData(faces), descriptor)
  /\ lastOp' = [op |-> "recognize", userId |-> NoUser, descriptor |-> descriptor,
                lenBefore |-> Len(faces), existed |-> FALSE, prev |-> NoDesc]
  /\ UNCHANGED <<safeVars, calls, storeVars, lastSaved, lastCall, sensorVars>>

\* an empty face store; u1 has an account, u2 has none
StoreInit ==
  /\ SafeIdle
  /\ users = << [id |-> "u1", pinHash |-> <<>>, voicePhrase |-> "",
                 faceDescriptor |-> NoDesc] >>
  /\ faces = <<>>
  /\ events = <<>>
  /\ MatcherIdle
  /\ SensorIdle
  /\ budget = StoreBudget

StoreNext ==
  \/ \E u \in StoreUsers, d \in StoreDescriptors : SaveFaceData(u, d)
  \/ \E u \in StoreUsers : DeleteFaceData(u)
  \/ \E q \in StoreQueries : RecognizeFace(q)

SpecStore == StoreInit /\ [][StoreNext]_vars

\* ------------------------------------------- storage calls that overlap
\* Each storage method awaits readFile, computes the new array, and awaits
\* writeFile; other calls run between the two.  A call is a record of what
\* was asked, where it stands (pc) and the array it is about to write (snap);
\* readAt / wroteAt number the reads and writes in the order they happened.
RaceBudget == 3
StorageCalls ==
  { [op |-> "createEvent", userId |-> NoUser, descriptor |-> NoDesc],
    [op |-> "saveFaceData", userId |-> "u2", descriptor |-> <<200>>],
    [op |-> "deleteFaceData", userId |-> "u2", descriptor |-> NoDesc] }

\* the number of file reads and writes made so far
FileOps(cs) ==
  LET S == {0} \cup {cs[k].readAt : k \in DOMAIN cs} \cup {cs[k].wroteAt : k \in DOMAIN cs}
  IN CHOOSE m \in S : \A x \in S : x <= m

\* a route calls a storage method: the call runs up to its await readFile
StartCall(c) ==
  /\ budget > 0
  /\ budget' = budget - 1
  /\ calls' = Append(calls, [op |-> c.op, userId |-> c.userId,
                             descriptor |-> c.descriptor, pc |-> "read",
                             snap |-> <<>>, readAt |-> 0, wroteAt |-> 0])
  /\ UNCHANGED <<safeVars, storeVars, lastMatch, lastOp, lastSaved, lastCall,
                 sensorVars>>

\* readFile resolves; the call computes the array to write, up to its await
\* writeFile (deleteFaceData returns false without writing when nothing
\* was filtered out)
CallRead(i) ==
  /\ i \in DOMAIN calls
  /\ calls[i].pc = "read"
  /\ LET c == calls[i]
         snap == CASE c.op = "createEvent" -> createEvent(events, "lock", NoUser, "", i)
                   [] c.op = "saveFaceData" ->
                        storageSaveFaceData(getFaceData(faces), c.userId, c.descriptor)
                   [] OTHER -> storageDeleteFaceData(getFaceData(faces), c.userId)
         returns == c.op = "deleteFaceData" /\ Len(snap) = Len(faces)
     IN calls' = [calls EXCEPT ![i] =
                    [c EXCEPT !.snap = snap, !.readAt = FileOps(calls) + 1,
                              !.pc = IF returns THEN "done" ELSE "write"]]
  /\ UNCHANGED <<safeVars, storeVars, lastMatch, lastOp, lastSaved, lastCall,
                 sensorVars, budget>>

\* writeFile resolves: the file now holds the array of this call
CallWrite(i) ==
  /\ i \in DOMAIN calls
  /\ calls[i].pc = "write"
  /\ IF calls[i].op = "createEvent"
     THEN events' = calls[i].snap /\ UNCHANGED faces
     ELSE faces' = calls[i].snap /\ UNCHANGED events
  /\ calls' = [calls EXCEPT ![i] =
                 [@ EXCEPT !.wroteAt = FileOps(calls) + 1,
                           !.pc = IF calls[i].op = "saveFaceData" THEN "update"
                                  ELSE "done"]]
  /\ UNCHANGED <<safeVars, users, lastMatch, lastOp, lastSaved, lastCall,
                 sensorVars, budget>>

\* saveFaceData: await this.updateUser(userId, { faceDescriptor: descriptor })
CallUpdateUser(i) ==
  /\ i \in DOMAIN calls
  /\ calls[i].pc = "update"
  /\ users' = updateUser(users, calls[i].userId, calls[i].descriptor)
  /\ calls' = [calls EXCEPT ![i].pc = "done"]
  /\ UNCHANGED <<safeVars, faces, events, lastMatch, lastOp, lastSaved, lastCall,
                 sensorVars, budget>>

ReadResolves == \E i \in DOMAIN calls : CallRead(i)
WriteResolves == \E i \in DOMAIN calls : CallWrite(i)
UpdateUserResolves == \E i \in DOMAIN calls : CallUpdateUser(i)

\* u1 has an account and a template; u2 has neither, and is the user the
\* overlapping calls save and delete
RaceInit ==
  /\ SafeIdle
  /\ users = EnrolledUsers
  /\ faces = << EnrolledFaces[1] >>
  /\ events = <<>>
  /\ MatcherIdle
  /\ SensorIdle
  /\ budget = RaceBudget

RaceNext ==
  \/ \E c \in StorageCalls : StartCall(c)
  \/ ReadResolves
  \/ WriteResolves
  \/ UpdateUserResolves

SpecRace == RaceInit /\ [][RaceNext]_vars

\* ------------------------------------------------------------- API routes
\* A request body is a record holding the fields the client sent; a response
\* is a record of the status and the fields of the JSON reply.  Requests are
\* handled one at a time.
RouteBudget == 3

Has(body, f) == f \in DOMAIN body
\* !userId: the field is missing or the empty string
HasUserId(body) == Has(body, "userId") /\ body.userId # ""
\* !pin
HasPin(body) == Has(body, "pin") /\ body.pin # NoPin
\* !voicePhrase
HasPhrase(body) == Has(body, "voicePhrase") /\ body.voicePhrase # ""
\* !descriptor: an array, also an empty one, is truthy
HasDescriptor(body) == Has(body, "descriptor")

RecognizeBodies ==
  { [image |-> "jpeg"], [descriptor |-> <<59>>], [descriptor |-> <<61>>],
    [descriptor |-> <<>>], [descriptor |-> <<59, 90>>] }
VerifyBodies ==
  { [userId |-> "u1"], [pin |-> <<1, 2, 3, 4>>],
    [userId |-> "u1", pin |-> <<1, 2, 3, 4>>],
    [userId |-> "u1", pin |-> <<9, 9, 9, 9>>],
    [userId |-> "u2", pin |-> <<5, 6, 7, 8>>] }
RegisterBodies ==
  { [descriptor |-> <<0>>],
    [userId |-> "u2", descriptor |-> <<>>],
    [userId |-> "u2", descriptor |-> <<200>>],
    [userId |-> "u2", pin |-> <<5, 6, 7, 8>>],
    [userId |-> "u2", voicePhrase |-> "hello"],
    [userId |-> "u1", descriptor |-> <<60>>] }

\* user?.name (the model's user records carry the id only)
UserName(user) == IF user = NoRecord THEN "" ELSE user.id

\* the variant of the denial path that logs nothing
NoDenialEvent(evs) == evs

\* recognise route: storage.createEvent({type: "unauthorized_face", metadata: {reason}})
DenialEvent(evs) ==
  createEvent(evs, "unauthorized_face", NoUser, "No matching face found", 0)

\* recognise route: the reply for what the matcher returned
RecognizeReply(m, user) ==
  IF m = NoMatch
  THEN [status |-> 401, error |-> "Face not recognized"]
  ELSE [status |-> 200, success |-> TRUE, userId |-> m.userId,
        userName |-> UserName(user), distance |-> m.distance]

Before == [users |-> users, faces |-> faces, events |-> events]

\* POST /api/face/recognize
RecognizeRequest(body) ==
  /\ budget > 0
  /\ budget' = budget - 1
  /\ IF ~HasDescriptor(body)
     THEN /\ lastCall' = [route |-> "recognize", body |-> body, before |-> Before,
                          resp |-> [status |-> 400, error |-> "descriptor is required"]]
          /\ UNCHANGED events
     ELSE LET m == recognizeFaceFromDescriptor(getFaceData(faces), body.descriptor)
          IN /\ events' = IF m = NoMatch THEN DenialEvent(events) ELSE events
             /\ lastCall' = [route |-> "recognize", body |-> body, before |-> Before,
                             resp |-> RecognizeReply(m, getUserById(users, m.userId))]
  /\ UNCHANGED <<safeVars, calls, users, faces, lastMatch, lastOp, lastSaved, sensorVars>>

\* verify-pin route: the reply for a status
VerifyPinReply(st) ==
  CASE st = 200 -> [status |-> 200, success |-> TRUE]
    [] st = 401 -> [status |-> 401, error |-> "Invalid PIN"]
    [] st = 404 -> [status |-> 404, error |-> "User not found"]
    [] OTHER -> [status |-> 400, error |-> "PIN not set for this user"]

\* POST /api/face/verify-pin
VerifyPinRequest(body) ==
  /\ budget > 0
  /\ budget' = budget - 1
  /\ IF ~HasUserId(body) \/ ~HasPin(body)
     THEN /\ lastCall' = [route |-> "verify-pin", body |-> body, before |-> Before,
                          resp |-> [status |-> 400, error |-> "UserId and PIN are required"]]
          /\ UNCHANGED events
     ELSE LET st == VerifyPinStatus(users, body.userId, body.pin)
          IN /\ events' = IF st = 401
                          THEN createEvent(events, "unauthorized_face", body.userId,
                                           "Invalid PIN", 0)
                          ELSE events
             /\ lastCall' = [route |-> "verify-pin", body |-> body, before |-> Before,
                             resp |-> VerifyPinReply(st)]
  /\ UNCHANGED <<safeVars, calls, users, faces, lastMatch, lastOp, lastSaved, sensorVars>>

\* register route: the record it writes when the user does not exist yet
NewUser(userId) ==
  [id |-> userId, pinHash |-> <<>>, voicePhrase |-> "", faceDescriptor |-> NoDesc]

\* storage.updateUser(id, { [field]: value })
updateUserField(us, id, field, value) ==
  LET index == UserIndex(us, id, 1)
  IN IF index = 0 THEN us
     ELSE [us EXCEPT ![index] = [@ EXCEPT ![field] = value]]

\* register route, "if (descriptor)": saveFaceData writes faces.json ...
RegisterFace(fs, body) ==
  IF HasDescriptor(body)
  THEN storageSaveFaceData(fs, body.userId, body.descriptor)
  ELSE fs

\* ... and storage.saveFaceData ends with updateUser(userId, { faceDescriptor })
RegisterFaceUser(us, body) ==
  IF HasDescriptor(body)
  THEN updateUser(us, body.userId, body.descriptor)
  ELSE us

\* register route, "if (!user && (pin || voicePhrase))": push a basic record
EnsureUser(us, body) ==
  IF getUserById(us, body.userId) = NoRecord /\ (HasPin(body) \/ HasPhrase(body))
  THEN Append(us, NewUser(body.userId))
  ELSE us

\* register route, "if (pin)"
RegisterPin(us, body) ==
  IF ~HasPin(body) THEN us
  ELSE IF getUserById(us, body.userId) = NoRecord
  THEN Append(us, [NewUser(body.userId) EXCEPT !.pinHash = hashPassword(body.pin)])
  ELSE updateUserField(us, body.userId, "pinHash", hashPassword(body.pin))

\* register route, "if (voicePhrase)"
RegisterPhrase(us, body) ==
  IF ~HasPhrase(body) THEN us
  ELSE IF getUserById(us, body.userId) = NoRecord
  THEN Append(us, [NewUser(body.userId) EXCEPT !.voicePhrase = body.voicePhrase])
  ELSE updateUserField(us, body.userId, "voicePhrase", body.voicePhrase)

\* register route, "if (pin || voicePhrase)": the setup event
RegisterEvent(evs, body) ==
  IF HasPin(body) \/ HasPhrase(body)
  THEN createEvent(evs, "setup", body.userId, "", 0)
  ELSE evs

\* the variant of the register route's descriptor check that lets [] through
EmptyDescriptorAccepted(body) == FALSE

\* register route: saveFaceData returned null (descriptorArray.length === 0)
InvalidDescriptor(body) == HasDescriptor(body) /\ Len(body.descriptor) = 0

\* POST /api/face/register
RegisterRequest(body) ==
  /\ budget > 0
  /\ budget' = budget - 1
  /\ IF ~HasUserId(body)
     THEN /\ lastCall' = [route |-> "register", body |-> body, before |-> Before,
                          resp |-> [status |-> 400, error |-> "UserId is required"]]
          /\ UNCHANGED <<storeVars, lastSaved>>
     ELSE IF InvalidDescriptor(body)
     THEN /\ lastCall' = [route |-> "register", body |-> body, before |-> Before,
                          resp |-> [status |-> 400, error |-> "Invalid descriptor"]]
          /\ UNCHANGED <<storeVars, lastSaved>>
     ELSE /\ faces' = RegisterFace(faces, body)
          /\ users' = RegisterPhrase(RegisterPin(EnsureUser(
                        RegisterFaceUser(users, body), body), body), body)
          /\ events' = RegisterEvent(events, body)
          /\ lastSaved' = IF HasDescriptor(body) /\ body.userId \in StoreUsers
                          THEN [lastSaved EXCEPT ![body.userId] = body.descriptor]
                          ELSE lastSaved
          /\ lastCall' = [route |-> "register", body |-> body, before |-> Before,
                          resp |-> [status |-> 200, success |-> TRUE]]
  /\ UNCHANGED <<safeVars, calls, lastMatch, lastOp, sensorVars>>

\* u1 is enrolled (face, PIN, phrase), u2 is unknown
RoutesFaces == << [userId |-> "u1", descriptor |-> <<0, 0>>] >>

RoutesInit ==
  /\ SafeIdle
  /\ users = EnrolledUsers
  /\ faces = RoutesFaces
  /\ events = <<>>
  /\ MatcherIdle
  /\ SensorIdle
  /\ budget = RouteBudget

RoutesNext ==
  \/ \E b \in RecognizeBodies : RecognizeRequest(b)
  \/ \E b \in VerifyBodies : VerifyPinRequest(b)
  \/ \E b \in RegisterBodies : RegisterRequest(b)

SpecRoutes == RoutesInit /\ [][RoutesNext]_vars

\* ------------------------------------------------------------ admin routes
AdminBudget == 3
\* Date.now().toString() of the successive requests (the clock moves on
\* between two requests)
CreatedIds == <<"1001", "1002", "1003", "1004", "1005">>

\* the auth-token cookie: absent, or a JWT with the key that signed it
NoToken == [kind |-> "none"]
NoPayload == [userId |-> NoUser, isAdmin |-> FALSE, valid |-> FALSE]
Jwt(key, expired, userId, isAdmin) ==
  [kind |-> "jwt", signedWith |-> key, expired |-> expired,
   payload |-> [userId |-> userId, isAdmin |-> isAdmin, valid |-> TRUE]]
Tokens ==
  { NoToken,
    Jwt("other-key", FALSE, "u1", TRUE),
    Jwt("JWT_SECRET", TRUE, "u1", TRUE),
    Jwt("JWT_SECRET", FALSE, "u2", FALSE),
    Jwt("JWT_SECRET", FALSE, "u1", TRUE) }

\* the variant of verifyToken that decodes the payload and verifies nothing
decodeOnly(token) == IF token = NoToken THEN NoPayload ELSE token.payload

\* verifyToken: jwt.verify throws on a bad signature or an expired token
verifyToken(token) ==
  IF token = NoToken THEN NoPayload
  ELSE IF token.signedWith = "JWT_SECRET" /\ ~token.expired THEN token.payload
  ELSE NoPayload

\* if (!token) 401; if (!payload || !payload.isAdmin) 401
Unauthorized(token) ==
  \/ token = NoToken
  \/ ~verifyToken(token).valid
  \/ ~verifyToken(token).isAdmin

AdminCalls ==
  { [op |-> "events.list"],
    [op |-> "users.list"],
    [op |-> "users.create", name |-> "Bob", email |-> <<"bob", "x.org">>, password |-> "pw"],
    [op |-> "users.create", name |-> "Bob", email |-> <<"u1", "safe.local">>,
     password |-> "pw"],
    [op |-> "users.create", name |-> "Bob", email |-> <<"bob", "x.org">>],
    [op |-> "users.update", id |-> "u1", updates |-> [voicePhrase |-> "changed"]],
    [op |-> "users.update", id |-> "u2", updates |-> [password |-> "pw"]],
    [op |-> "users.delete", id |-> "u1"],
    [op |-> "users.delete", id |-> "u2"] }

\* the register route gives the records it creates `${userId}@safe.local`
Email(user) == IF Has(user, "email") THEN user.email ELSE <<user.id, "safe.local">>
\* storage.getUserByEmail(email) finds a record
EmailTaken(us, email) == \E k \in DOMAIN us : Email(us[k]) = email

\* storage.createUser: push { ...user, id: Date.now().toString() }
storageCreateUser(us, id, user) ==
  Append(us, [id |-> id, name |-> user.name, email |-> user.email,
              passwordHash |-> user.passwordHash, isAdmin |-> user.isAdmin])

\* PATCH: updates.password becomes updates.passwordHash
PatchUpdates(updates) ==
  IF Has(updates, "password")
  THEN [f \in (DOMAIN updates \ {"password"}) \cup {"passwordHash"} |->
          IF f = "passwordHash" THEN hashPassword(updates.password) ELSE updates[f]]
  ELSE updates

\* storage.updateUser(id, updates): users[index] = { ...users[index], ...updates }
storageUpdateUser(us, id, updates) ==
  LET index == UserIndex(us, id, 1)
  IN IF index = 0 THEN us
     ELSE [us EXCEPT ![index] =
             [f \in DOMAIN us[index] \cup DOMAIN updates |->
                IF f \in DOMAIN updates THEN updates[f] ELSE us[index][f]]]

\* storage.deleteUser: users.filter((u) => u.id !== id)
storageDeleteUser(us, id) == SelectSeq(us, LAMBDA u : u.id # id)

\* what an authorised admin request does to users and faces, and its reply
AdminUsers(call, id) ==
  CASE call.op = "users.create" ->
         IF Has(call, "name") /\ Has(call, "email") /\ Has(call, "password")
            /\ ~EmailTaken(users, call.email)
         THEN storageCreateUser(users, id,
                [name |-> call.name, email |-> call.email,
                 passwordHash |-> hashPassword(call.password),
                 isAdmin |-> Has(call, "isAdmin") /\ call.isAdmin])
         ELSE users
    [] call.op = "users.update" ->
         storageUpdateUser(users, call.id, PatchUpdates(call.updates))
    [] call.op = "users.delete" -> storageDeleteUser(users, call.id)
    [] OTHER -> users

AdminFaces(call) ==
  IF call.op = "users.delete" /\ storageDeleteUser(users, call.id) # users
  THEN storageDeleteFaceData(faces, call.id)
  ELSE faces

AdminReply(call) ==
  CASE call.op = "events.list" -> [status |-> 200, events |-> getEvents(events, 0)]
    [] call.op = "users.list" -> [status |-> 200, users |-> users]
    [] call.op = "users.create" ->
         IF ~(Has(call, "name") /\ Has(call, "email") /\ Has(call, "password"))
         THEN [status |-> 400, error |-> "Name, email, and password are required"]
         ELSE IF EmailTaken(users, call.email)
         THEN [status |-> 400, error |-> "User with this email already exists"]
         ELSE [status |-> 200, success |-> TRUE]
    [] call.op = "users.update" ->
         IF UserIndex(users, call.id, 1) = 0
         THEN [status |-> 404, error |-> "User not found"]
         ELSE [status |-> 200, success |-> TRUE]
    [] OTHER ->
         IF storageDeleteUser(users, call.id) = users
         THEN [status |-> 404, error |-> "User not found"]
         ELSE [status |-> 200, success |-> TRUE]

\* GET /api/events, GET / POST /api/users, PATCH / DELETE /api/users/[id]
AdminRequest(call, token) ==
  /\ budget > 0
  /\ budget' = budget - 1
  /\ IF Unauthorized(token)
     THEN /\ lastCall' = [route |-> "admin", call |-> call, token |-> token,
                          before |-> Before,
                          resp |-> [status |-> 401, error |-> "Unauthorized"]]
          /\ UNCHANGED <<users, faces, lastSaved>>
     ELSE /\ lastCall' = [route |-> "admin", call |-> call, token |-> token,
                          before |-> Before, resp |-> AdminReply(call)]
          /\ users' = AdminUsers(call, CreatedIds[budget])
          /\ faces' = AdminFaces(call)
          /\ lastSaved' = IF AdminFaces(call) # faces
                          THEN [lastSaved EXCEPT ![call.id] = NoDesc]
                          ELSE lastSaved
  /\ UNCHANGED <<safeVars, calls, events, lastMatch, lastOp, sensorVars>>

\* request.nextUrl.pathname of the requests the matcher "/admin/:path*" hands
\* to the middleware, as path segments
LoginPath == <<"admin", "login">>
AdminPaths == { <<"admin">>, <<"admin", "users">>, LoginPath }

\* middleware(request): both redirects are commented out, so every branch
\* falls through to NextResponse.next()
middleware(pathname, token) ==
  IF Head(pathname) = "admin" /\ pathname # LoginPath
  THEN IF token = NoToken
       THEN [action |-> "next"]
       ELSE IF ~verifyToken(token).valid \/ ~verifyToken(token).isAdmin
       THEN [action |-> "next"]
       ELSE [action |-> "next"]
  ELSE [action |-> "next"]

\* a browser request for an /admin page: the page served is the one asked
\* for unless the middleware redirects
PageRequest(pathname, token) ==
  /\ budget > 0
  /\ budget' = budget - 1
  /\ lastCall' = [route |-> "page", pathname |-> pathname, token |-> token,
                  before |-> Before,
                  resp |-> LET m == middleware(pathname, token)
                           IN [served |-> IF m.action = "next" THEN pathname
                                          ELSE m.location]]
  /\ UNCHANGED <<safeVars, calls, storeVars, lastMatch, lastOp, lastSaved, sensorVars>>

\* u1 has an account and a template; u2 has neither
AdminInit ==
  /\ SafeIdle
  /\ users = EnrolledUsers
  /\ faces = RoutesFaces
  /\ events = << [type |-> "setup", userId |-> "u1", reason |-> "", att |-> 0,
                  timestamp |-> 1] >>
  /\ lastMatch = NoMatch
  /\ lastOp = NoOp
  /\ lastSaved = [u \in StoreUsers |-> IF u = "u1" THEN <<0, 0>> ELSE NoDesc]
  /\ lastCall = NoCall
  /\ calls = <<>>
  /\ SensorIdle
  /\ budget = AdminBudget

AdminNext ==
  \/ \E c \in AdminCalls, t \in Tokens : AdminRequest(c, t)
  \/ \E u \in StoreUsers, d \in {<<200>>, <<5, 5>>} : SaveFaceData(u, d)
  \/ \E q \in {<<0, 0>>, <<200>>, <<5, 5>>} : RecognizeRequest([descriptor |-> q])
  \/ \E pth \in AdminPaths, t \in Tokens : PageRequest(pth, t)

SpecAdmin == AdminInit /\ [][AdminNext]_vars

\* ------------------------------------------------------------- setup flow
MaxSetups == 2
MaxSetupTasks == 4
\* "user-" + Date.now(), for the successive times an id is minted
MintedIds == <<"user-1", "user-2", "user-3", "user-4">>
SetupFaces == { <<300, 0>> }
\* the text input of the phrase step, which may be left empty
Phrases == { "open", "" }
SetupPins == { <<1, 2, 3, 4>>, <<9, 9, 9, 9>>, <<1, 2>> }

setupFrame == <<matchVars, sensorVars, budget, pin, ls, attempt, reloads, face, verify,
                recorder, lockPending, actuator, posted, pendingFetch>>

\* handleSetup (the button is rendered while safeState is "locked")
HandleSetup ==
  /\ safeState = "locked"
  /\ setupSession < MaxSetups
  /\ setupSession' = setupSession + 1
  /\ safeState' = "setup"
  /\ setupMode' = "face"
  /\ setupUserId' = NoUser
  /\ UNCHANGED <<setupFrame, storeVars, lsUserId, setupPin, confirmPin, setupTasks, minted>>

\* the variant of the id choice that mints a new id on every capture
AlwaysMint(state, stored, fresh) == fresh

\* setupUserId || localStorage.getItem("userId") || "user-" + Date.now()
FaceUserId(state, stored, fresh) ==
  IF state # NoUser THEN state
  ELSE IF stored # NoUser THEN stored
  ELSE fresh

\* completeFaceSetup with a face detected, up to the fetch of /api/face/register
\* (with no face detected it only sets the status message)
CompleteFaceSetup(d) ==
  LET userId == FaceUserId(setupUserId, lsUserId, MintedIds[minted + 1])
  IN /\ safeState = "setup"
     /\ setupMode = "face"
     /\ Len(setupTasks) < MaxSetupTasks
     /\ minted < Len(MintedIds)
     /\ minted' = IF userId = MintedIds[minted + 1] THEN minted + 1 ELSE minted
     /\ lsUserId' = userId
     /\ setupUserId' = userId
     /\ setupTasks' = Append(setupTasks,
                             [kind |-> "face", session |-> setupSession, pc |-> "fetch",
                              st |-> 0, body |-> [userId |-> userId, descriptor |-> d]])
     /\ UNCHANGED <<setupFrame, storeVars, safeState, setupMode, setupPin, confirmPin,
                    setupSession>>

\* onChange of the two PIN inputs of the setup flow
TypeSetupPins(p, c) ==
  /\ safeState = "setup"
  /\ setupMode = "pin"
  /\ <<p, c>> # <<setupPin, confirmPin>>
  /\ setupPin' = p
  /\ confirmPin' = c
  /\ UNCHANGED <<setupFrame, storeVars, safeState, setupMode, setupUserId, lsUserId,
                 setupSession, setupTasks, minted>>

\* completePinSetup (its button is disabled while setupPin.length < 4)
CompletePinSetup ==
  /\ safeState = "setup"
  /\ setupMode = "pin"
  /\ Len(setupPin) >= MinPinLen
  /\ IF setupPin # confirmPin
     THEN /\ setupPin' = NoPin
          /\ confirmPin' = NoPin
          /\ UNCHANGED setupMode
     ELSE /\ setupMode' = "phrase"
          /\ UNCHANGED <<setupPin, confirmPin>>
  /\ UNCHANGED <<setupFrame, storeVars, safeState, setupUserId, lsUserId, setupSession,
                 setupTasks, minted>>

\* completePhraseSetup up to setTimeout(cb, 10000); the callback closes over
\* setupUserId, setupPin and phrase of the render that was clicked
CompletePhraseSetup(ph) ==
  /\ safeState = "setup"
  /\ setupMode = "phrase"
  /\ Len(setupTasks) < MaxSetupTasks
  /\ setupTasks' = Append(setupTasks,
                          [kind |-> "phrase", session |-> setupSession, pc |-> "timer",
                           st |-> 0, uid |-> setupUserId, pin |-> setupPin,
                           phrase |-> ph])
  /\ UNCHANGED <<setupFrame, storeVars, safeState, setupMode, setupUserId, lsUserId,
                 setupPin, confirmPin, setupSession, minted>>

\* setupUserId || localStorage.getItem("userId")
PhraseUserId(state, stored) == IF state # NoUser THEN state ELSE stored

\* the phrase timer callback up to the fetch of /api/face/register; timers of
\* equal delay run in the order they were set
PhraseTimerFire(k) ==
  /\ k \in DOMAIN setupTasks
  /\ setupTasks[k].pc = "timer"
  /\ \A j \in 1..(k - 1) : setupTasks[j].pc # "timer"
  /\ \E hasAudio \in BOOLEAN :
       LET t == setupTasks[k]
           userId == PhraseUserId(t.uid, lsUserId)
       IN setupTasks' =
            [setupTasks EXCEPT ![k] =
               IF hasAudio /\ userId # NoUser
               THEN [kind |-> "phrase", session |-> t.session, pc |-> "fetch", st |-> 0,
                     body |-> [userId |-> userId, pin |-> t.pin, voicePhrase |-> t.phrase]]
               ELSE [kind |-> "phrase", session |-> t.session, pc |-> "silent", st |-> 0]]
  /\ UNCHANGED <<setupFrame, storeVars, safeState, setupMode, setupUserId, lsUserId,
                 setupPin, confirmPin, setupSession, minted>>

\* POST /api/face/register for a request of the setup flow; a request that
\* does not reach the route leaves the stores alone and is not ok
SetupRegisterRoute(k) ==
  /\ k \in DOMAIN setupTasks
  /\ setupTasks[k].pc = "fetch"
  /\ LET body == setupTasks[k].body
     IN \E reached \in BOOLEAN :
          IF reached /\ HasUserId(body) /\ ~InvalidDescriptor(body)
          THEN /\ faces' = RegisterFace(faces, body)
               /\ users' = RegisterPhrase(RegisterPin(EnsureUser(
                             RegisterFaceUser(users, body), body), body), body)
               /\ events' = RegisterEvent(events, body)
               /\ setupTasks' = [setupTasks EXCEPT ![k] = [@ EXCEPT !.pc = "resp", !.st = 200]]
          ELSE /\ UNCHANGED storeVars
               /\ setupTasks' = [setupTasks EXCEPT ![k] =
                                   [@ EXCEPT !.pc = "resp", !.st = IF reached THEN 400 ELSE 500]]
  /\ UNCHANGED <<setupFrame, safeState, setupMode, setupUserId, lsUserId, setupPin,
                 confirmPin, setupSession, minted>>

\* the rest of completeFaceSetup / of the phrase callback, after await fetch
SetupResponse(k) ==
  /\ k \in DOMAIN setupTasks
  /\ setupTasks[k].pc = "resp"
  /\ setupTasks' = [setupTasks EXCEPT ![k].pc = "done"]
  /\ IF setupTasks[k].st # 200
     THEN UNCHANGED <<safeState, setupMode, setupUserId, setupPin, confirmPin>>
     ELSE IF setupTasks[k].kind = "face"
     THEN /\ setupMode' = "pin"
          /\ UNCHANGED <<safeState, setupUserId, setupPin, confirmPin>>
     ELSE /\ safeState' = "locked"
          /\ setupMode' = "face"
          /\ setupPin' = NoPin
          /\ confirmPin' = NoPin
          /\ setupUserId' = NoUser
  /\ UNCHANGED <<setupFrame, storeVars, lsUserId, setupSession, minted>>

SetupInit ==
  /\ SafeIdle
  /\ users = EnrolledUsers
  /\ faces = EnrolledFaces
  /\ events = <<>>
  /\ MatcherIdle
  /\ SensorIdle
  /\ budget = 0

SetupNext ==
  \/ HandleSetup
  \/ \E d \in SetupFaces : CompleteFaceSetup(d)
  \/ \E p \in SetupPins, c \in {<<1, 2, 3, 4>>} : TypeSetupPins(p, c)
  \/ CompletePinSetup
  \/ \E ph \in Phrases : CompletePhraseSetup(ph)
  \/ \E k \in 1..MaxSetupTasks : PhraseTimerFire(k)
  \/ \E k \in 1..MaxSetupTasks : SetupRegisterRoute(k)
  \/ \E k \in 1..MaxSetupTasks : SetupResponse(k)

SpecSetup == SetupInit /\ [][SetupNext]_vars

\* ------------------------------------------- sensor pipeline (dashboard, hub)
\* A reading r is the integer r * Scale.  A magnitude is kept as its square.
\* A mean is kept as the pair (sum, count): smoothed.x / smoothed.n is avgX,
\* and smoothed.z / smoothed.n is avgZ - 5.
\* One dashboard page is open; it is connected to the hub and to both native
\* WebSockets from the start.
SmoothBudget == 6
SensorBudget == 3
MaxAdvances == 2

\* const bufferSize = 5
bufferSize == 5
\* return { ..., z: avgZ - 5 }
ZOffset == 5 * Scale
\* MOVEMENT_EVENT_COOLDOWN = 5000
MOVEMENT_EVENT_COOLDOWN == 5000
\* accelMagnitude > 50 (dashboard and hub)
TheftMagnitude == 50 * Scale
\* Math.abs(data.accelerometer.x) > 5, Math.abs(data.gyroscope.x) > 2
AccelMove == 5 * Scale
GyroMove == 2 * Scale
\* accelMagnitude < 0.1, Math.abs(data.gyroscope.x) < 0.1
GhostLimit == Scale \div 10
\* sensorDataStore.length > 100
StoreCap == 100
\* newLabels.length > 20
ChartPoints == 20

\* how far Date.now() moves between two handlers, in ms
TimeSteps == {2500, 2501}
MaxStep == 2501

Vec(x, y, z) == [x |-> x, y |-> y, z |-> z]
Zero3 == Vec(0, 0, 0)

\* what arrives on the Socket.io channel, on the accelerometer WebSocket
\* (data.values) and on the gyroscope WebSocket (data.values)
HubSamples ==
  { [accelerometer |-> Vec(0, -700, 6000), gyroscope |-> Zero3],
    [accelerometer |-> Zero3, gyroscope |-> Zero3] }
AccelValues == { <<3000, 4000, 0>>, <<0, 0, 6000>> }
GyroValues == { <<0, 300, 0>> }
SmoothValues == { <<600, 0, 900>>, <<0, 0, 6000>>, <<100, -200, 1000>>, <<1, 2>> }
SmoothGyroValues == { <<0, 300, 0>>, <<200, 0>> }

RECURSIVE Sum(_)
\* reduce((a, b) => a + b, 0)
Sum(seq) == IF seq = <<>> THEN 0 ELSE Head(seq) + Sum(Tail(seq))

\* the variant of the buffer update that never drops the oldest sample
NeverShift(buf, x, y, z) ==
  [x |-> Append(buf.x, x), y |-> Append(buf.y, y), z |-> Append(buf.z, z)]

\* smoothAccelerometer, the buffer update: push, then shift when over bufferSize
pushBuffer(buf, x, y, z) ==
  LET pushed == [x |-> Append(buf.x, x), y |-> Append(buf.y, y),
                 z |-> Append(buf.z, z)]
  IN IF Len(pushed.x) > bufferSize
     THEN [x |-> Tail(pushed.x), y |-> Tail(pushed.y), z |-> Tail(pushed.z)]
     ELSE pushed

\* smoothAccelerometer, the value returned for the updated buffer
bufferAverage(buf) ==
  [x |-> Sum(buf.x), y |-> Sum(buf.y),
   z |-> Sum(buf.z) - ZOffset * Len(buf.z), n |-> Len(buf.x)]

Magnitude2(a) == a.x * a.x + a.y * a.y + a.z * a.z

\* the variant of the dashboard's theft test that honours the movement cooldown
TheftOutsideCooldown(data) ==
  /\ Magnitude2(data.accelerometer) > TheftMagnitude * TheftMagnitude
  /\ now - lastMovementEvent > MOVEMENT_EVENT_COOLDOWN

\* handleSensorData: if (accelMagnitude > 50)
DashTheft(data) ==
  Magnitude2(data.accelerometer) > TheftMagnitude * TheftMagnitude

\* server.ts: if (accelMagnitude > 50)
HubTheft(data) ==
  Magnitude2(data.accelerometer) > TheftMagnitude * TheftMagnitude

\* the variant of the ghost test that counts the limit itself as still
GhostAtLimit(data) ==
  /\ Magnitude2(data.accelerometer) <= GhostLimit * GhostLimit
  /\ -GhostLimit <= data.gyroscope.x /\ data.gyroscope.x <= GhostLimit
  /\ -GhostLimit <= data.gyroscope.y /\ data.gyroscope.y <= GhostLimit
  /\ -GhostLimit <= data.gyroscope.z /\ data.gyroscope.z <= GhostLimit

\* server.ts: accelMagnitude < 0.1 && Math.abs(gyroscope.*) < 0.1
HubGhost(data) ==
  /\ Magnitude2(data.accelerometer) < GhostLimit * GhostLimit
  /\ -GhostLimit < data.gyroscope.x /\ data.gyroscope.x < GhostLimit
  /\ -GhostLimit < data.gyroscope.y /\ data.gyroscope.y < GhostLimit
  /\ -GhostLimit < data.gyroscope.z /\ data.gyroscope.z < GhostLimit

Exceeds(v, limit) == v > limit \/ v < -limit

\* the variant of the metadata that looks at the accelerometer only
AccelOnlyMetadata(data) ==
  {<<"accelX", data.accelerometer.x>> : e \in {1} \cap
       (IF Exceeds(data.accelerometer.x, AccelMove) THEN {1} ELSE {})}
  \cup {<<"accelY", data.accelerometer.y>> : e \in {1} \cap
       (IF Exceeds(data.accelerometer.y, AccelMove) THEN {1} ELSE {})}

\* the metadata of a movement_detected event: one entry per exceeded axis
MovementMetadata(data) ==
  {<<"accelX", data.accelerometer.x>> : e \in {1} \cap
       (IF Exceeds(data.accelerometer.x, AccelMove) THEN {1} ELSE {})}
  \cup {<<"accelY", data.accelerometer.y>> : e \in {1} \cap
       (IF Exceeds(data.accelerometer.y, AccelMove) THEN {1} ELSE {})}
  \cup {<<"gyroX", data.gyroscope.x>> : e \in {1} \cap
       (IF Exceeds(data.gyroscope.x, GyroMove) THEN {1} ELSE {})}
  \cup {<<"gyroY", data.gyroscope.y>> : e \in {1} \cap
       (IF Exceeds(data.gyroscope.y, GyroMove) THEN {1} ELSE {})}
  \cup {<<"gyroZ", data.gyroscope.z>> : e \in {1} \cap
       (IF Exceeds(data.gyroscope.z, GyroMove) THEN {1} ELSE {})}

\* accelXExceeded || accelYExceeded || gyroXExceeded || gyroYExceeded || gyroZExceeded
MovementExceeded(data) == MovementMetadata(data) # {}

\* the variant of the cooldown test that always passes
NoCooldown(t, last) == TRUE

\* now - lastMovementEventRef.current > MOVEMENT_EVENT_COOLDOWN
CooldownOver(t, last) == t - last > MOVEMENT_EVENT_COOLDOWN

\* the variant of the timestamp update that restarts the cooldown at every
\* qualifying sample, logged or suppressed
StampEveryQualifying(exceeded, log, t, last) == IF exceeded THEN t ELSE last

\* lastMovementEventRef.current = now, inside the if that logs
StampLogged(exceeded, log, t, last) == IF log THEN t ELSE last

\* setAccelData / setGyroData: append, drop the oldest point over 20
ChartPush(series, point) ==
  LET added == Append(series, point)
  IN IF Len(added) > ChartPoints THEN Tail(added) ELSE added

\* handleSensorData(data), called for a sample of producer src
handleSensorData(data, src) ==
  LET a == data.accelerometer
      buf == pushBuffer(accelBuffer, a.x, a.y, a.z)
      theft == DashTheft(data)
      log == MovementExceeded(data) /\ CooldownOver(now, lastMovementEvent)
      k == Len(handled) + 1
  IN /\ accelBuffer' = buf
     /\ smoothed' = bufferAverage(buf)
     /\ rawAccel' = Append(rawAccel, a)
     /\ accelData' = ChartPush(accelData, bufferAverage(buf))
     /\ gyroData' = IF data.gyroscope # Zero3
                    THEN ChartPush(gyroData, data.gyroscope)
                    ELSE gyroData
     /\ accidentCount' = IF theft THEN accidentCount + 1 ELSE accidentCount
     /\ theftDetected' = (theftDetected \/ theft)
     /\ lastMovementEvent' = StampLogged(MovementExceeded(data), log, now,
                                         lastMovementEvent)
     /\ dashPosted' =
          dashPosted
          \o (IF theft
              THEN << [type |-> "theft_detected", sample |-> k,
                       metadata |-> {<<"magnitude", Magnitude2(a)>>}] >>
              ELSE <<>>)
          \o (IF log
              THEN << [type |-> "movement_detected", sample |-> k,
                       metadata |-> MovementMetadata(data)] >>
              ELSE <<>>)
     /\ handled' = Append(handled, [data |-> data, source |-> src, at |-> now,
                                    last |-> lastMovementEvent])

\* accelSocket.onmessage (the components are numbers, which `|| 0` keeps)
AccelMessage(values) ==
  /\ budget > 0
  /\ budget' = budget - 1
  /\ IF Len(values) >= 3
     THEN handleSensorData([accelerometer |-> Vec(values[1], values[2], values[3]),
                            gyroscope |-> Zero3], "accel")
     ELSE UNCHANGED dashVars
  /\ UNCHANGED <<safeVars, storeVars, matchVars, now, hubVars>>

\* gyroSocket.onmessage
GyroMessage(values) ==
  /\ budget > 0
  /\ budget' = budget - 1
  /\ IF Len(values) >= 3
     THEN handleSensorData([accelerometer |-> Zero3,
                            gyroscope |-> Vec(values[1], values[2], values[3])],
                           "gyro")
     ELSE UNCHANGED dashVars
  /\ UNCHANGED <<safeVars, storeVars, matchVars, now, hubVars>>

\* the variant of the history update that never drops the oldest sample
storeNeverShift(store, data) == Append(store, data)

\* server.ts: sensorDataStore.push(data); if (length > 100) shift()
storePush(store, data) ==
  LET pushed == Append(store, data)
  IN IF Len(pushed) > StoreCap THEN Tail(pushed) ELSE pushed

\* the variant of the broadcast that answers the sender alone (socket.emit)
SenderOnly(conn, sender) == {sender}

\* io.emit: every connected socket, the sender included
BroadcastTargets(conn, sender) == conn

\* data.accelerometer.x and data.gyroscope.x on a sample that lacks the field
\* throw a TypeError, which ends the handler; && reads the gyroscope only
\* when accelMagnitude < 0.1
ThrowsAtAccel(data) == ~Has(data, "accelerometer")
ThrowsAtGyro(data) ==
  /\ Has(data, "accelerometer")
  /\ Magnitude2(data.accelerometer) < GhostLimit * GhostLimit
  /\ ~Has(data, "gyroscope")

\* server.ts: socket.on("sensor-data", ...) of socket s
HubSensorData(s, data) ==
  LET to == BroadcastTargets(connected, s)
      Emit(ev) == [event |-> ev, n |-> received + 1, data |-> data, at |-> now,
                   to |-> to]
  IN
  /\ budget > 0
  /\ s \in connected
  /\ budget' = budget - 1
  /\ sensorDataStore' = storePush(sensorDataStore, data)
  /\ received' = received + 1
  /\ ioQueue' = IF "dash" \in to THEN Append(ioQueue, data) ELSE ioQueue
  /\ emitted' =
       emitted
       \o << Emit("sensor-data") >>
       \o (IF ThrowsAtAccel(data) THEN <<>>
           ELSE (IF HubTheft(data) THEN << Emit("theft-alert") >> ELSE <<>>)
                \o (IF ThrowsAtGyro(data) THEN <<>>
                    ELSE IF HubGhost(data) THEN << Emit("ghost-mode-alert") >>
                    ELSE <<>>))
  /\ thrown' = IF ThrowsAtAccel(data) \/ ThrowsAtGyro(data) THEN thrown + 1 ELSE thrown
  /\ UNCHANGED <<safeVars, storeVars, matchVars, now, dashVars, connected, joinedAt>>

\* the dashboard's socket.on("sensor-data", ...) for the next broadcast
DashSensorData ==
  /\ ioQueue # <<>>
  /\ handleSensorData(Head(ioQueue), "socket.io")
  /\ ioQueue' = Tail(ioQueue)
  /\ UNCHANGED <<safeVars, storeVars, matchVars, now, sensorDataStore, received,
                 emitted, connected, thrown, joinedAt, budget>>

\* time passes between two handlers
Advance(dt) ==
  /\ budget > 0 \/ ioQueue # <<>>
  /\ now + dt - StartTime <= MaxAdvances * MaxStep
  /\ now' = now + dt
  /\ UNCHANGED <<safeVars, storeVars, matchVars, dashVars, hubVars, budget>>

SensorInit(messages) ==
  /\ SafeIdle
  /\ users = EnrolledUsers
  /\ faces = EnrolledFaces
  /\ events = <<>>
  /\ MatcherIdle
  /\ SensorIdle
  /\ budget = messages

\* the smoothing window alone: samples on the two WebSockets, no clock
SmootherInit == SensorInit(SmoothBudget)

SmootherNext ==
  \/ \E v \in SmoothValues : AccelMessage(v)
  \/ \E v \in SmoothGyroValues : GyroMessage(v)

SpecSmoother == SmootherInit /\ [][SmootherNext]_vars

\* the three producers, the hub and the clock
PipelineInit == SensorInit(SensorBudget)

PipelineNext ==
  \/ \E v \in AccelValues : AccelMessage(v)
  \/ \E v \in GyroValues : GyroMessage(v)
  \/ \E d \in HubSamples : HubSensorData("mobile", d)
  \/ DashSensorData
  \/ \E dt \in TimeSteps : Advance(dt)

SpecSensor == PipelineInit /\ [][PipelineNext]_vars

\* the hub alone, with phones connecting and disconnecting, after it has
\* handled Prefill samples of one phone at rest
HubBudget == 2
Prefill == StoreCap - 1
HubSockets == {"mobile", "mobile2"}
AtRest == [accelerometer |-> Vec(0, 0, 980), gyroscope |-> Zero3]
HubMessages ==
  { [accelerometer |-> Vec(0, -700, 6000), gyroscope |-> Zero3],
    [accelerometer |-> Zero3, gyroscope |-> Zero3],
    [accelerometer |-> Vec(6, 7, 0), gyroscope |-> Vec(9, -9, 0)],
    [accelerometer |-> Vec(10, 0, 0), gyroscope |-> Zero3],
    [accelerometer |-> Vec(6, 7, 0), gyroscope |-> Vec(0, -10, 0)],
    [gyroscope |-> Zero3, timestamp |-> 1],
    [accelerometer |-> Zero3, timestamp |-> 2] }

\* io.on("connection", ...)
Connect(s) ==
  /\ s \notin connected
  /\ connected' = connected \cup {s}
  /\ joinedAt' = received
  /\ UNCHANGED <<safeVars, storeVars, matchVars, now, dashVars, sensorDataStore,
                 received, emitted, ioQueue, thrown, budget>>

\* socket.on("disconnect", ...)
Disconnect(s) ==
  /\ s \in connected
  /\ connected' = connected \ {s}
  /\ UNCHANGED <<safeVars, storeVars, matchVars, now, dashVars, sensorDataStore,
                 received, emitted, ioQueue, thrown, joinedAt, budget>>

HubInit ==
  /\ SafeIdle
  /\ users = EnrolledUsers
  /\ faces = EnrolledFaces
  /\ events = <<>>
  /\ MatcherIdle
  /\ DashIdle
  /\ sensorDataStore = [k \in 1..Prefill |-> AtRest]
  /\ received = Prefill
  /\ emitted = [k \in 1..Prefill |->
                  [event |-> "sensor-data", n |-> k, data |-> AtRest, at |-> StartTime,
                   to |-> {"mobile"}]]
  /\ ioQueue = <<>>
  /\ connected = {"mobile"}
  /\ thrown = 0
  /\ joinedAt = Prefill
  /\ budget = HubBudget

HubNext ==
  \/ \E s \in HubSockets, d \in HubMessages : HubSensorData(s, d)
  \/ \E s \in HubSockets : Connect(s)
  \/ \E s \in HubSockets : Disconnect(s)

SpecHub == HubInit /\ [][HubNext]_vars

\* one phone that leaves and rejoins the hub while the dashboard stays on it
RestartBudget == 3
RestartSamples ==
  { [accelerometer |-> Vec(600, 0, 900), gyroscope |-> Zero3],
    [accelerometer |-> Vec(100, -200, 1000), gyroscope |-> Zero3] }

RestartInit == SensorInit(RestartBudget)

RestartNext ==
  \/ \E d \in RestartSamples : HubSensorData("mobile", d)
  \/ DashSensorData
  \/ Disconnect("mobile")
  \/ Connect("mobile")

SpecRestart == RestartInit /\ [][RestartNext]_vars

\* ---------------------------------------------------- unlock flow, claims
\* an attempt a is over: its face callback and every Verify handler started in
\* it have run to their end, and Verify can no longer be clicked in it
AttemptOver(a) ==
  /\ a <= attempt
  /\ ~FaceLive(a)
  /\ \A i \in DOMAIN verify : verify[i].att = a => ~VerifyLive(i)
  /\ attempt > a \/ safeState # "unlocking"

UnlockPosts(a) ==
  Cardinality({k \in DOMAIN posted : posted[k].type = "unlock" /\ posted[k].att = a})
OpenCalls(a) ==
  Cardinality({k \in DOMAIN actuator : actuator[k].cmd = "open" /\ actuator[k].att = a})
ActuatorCalls(a) ==
  Cardinality({k \in DOMAIN actuator : actuator[k].att = a})
InvalidPinEvents(a) ==
  Cardinality({k \in DOMAIN events :
                 /\ events[k].type = "unauthorized_face"
                 /\ events[k].reason = "Invalid PIN"
                 /\ events[k].att = a})

LastCmd == IF actuator = <<>> THEN "none" ELSE actuator[Len(actuator)].cmd

\* C1: the actuator-open command is issued only by an attempt in which the
\* face match succeeded first, the PIN was then verified for the userId that
\* this face match recognised, and the voice check then succeeded -- all in
\* one and the same attempt: every open call comes from a Verify handler whose
\* userId was stored by the face match of the attempt the click belongs to,
\* and that attempt is still the current one when the call is made.
C1_OpenOnlyAfterThreeStages ==
  \A k \in DOMAIN actuator :
    actuator[k].cmd = "open" =>
      /\ actuator[k].faceAtt = actuator[k].att
      /\ actuator[k].cur = actuator[k].att

\* C2: an attempt in which the face match succeeded, then the correct PIN was
\* submitted (every PIN submitted in the attempt was verified), then speech was
\* detected ends unlocked, with exactly one unlock event posted and exactly
\* one actuator-open call over the whole attempt.
\* (The end state is compared while the attempt is the latest one, the page
\* was not reloaded in the step and the operator has not pressed Lock since.)
C2Scenario(a) ==
  /\ face[a].res = "ok"
  /\ \A i \in DOMAIN verify :
       verify[i].att = a => verify[i].faceAtt = a /\ verify[i].st = 200
  /\ \E i \in DOMAIN verify : verify[i].att = a /\ verify[i].pc = "opened"

C2_UnlockScenario ==
  [][\A a \in 1..MaxAttempts :
       (~AttemptOver(a) /\ AttemptOver(a)' /\ C2Scenario(a)') =>
         /\ UnlockPosts(a)' = 1
         /\ OpenCalls(a)' = 1
         /\ (attempt' = a /\ reloads' = reloads /\ LastCmd' = "open")
              => safeState' = "unlocked"]_vars

\* C3: an attempt in which the face match succeeded and an incorrect PIN was
\* then submitted ends locked, with exactly one unauthorized_face event of
\* reason "Invalid PIN" logged and no actuator call of any kind.
C3Scenario(a) ==
  /\ face[a].res = "ok"
  /\ \E i \in DOMAIN verify :
       /\ verify[i].att = a /\ verify[i].faceAtt = a
       /\ verify[i].pc = "rejected" /\ verify[i].st = 401

C3_InvalidPinScenario ==
  [][\A a \in 1..MaxAttempts :
       (~AttemptOver(a) /\ AttemptOver(a)' /\ C3Scenario(a)') =>
         /\ InvalidPinEvents(a)' = 1
         /\ ActuatorCalls(a)' = 0
         /\ (attempt' = a /\ reloads' = reloads) => safeState' = "locked"]_vars

\* C4: every failure of a non-terminal stage (capture failed, no face, face
\* not recognised, PIN rejected, no speech) sets safeState to locked and
\* leaves no recognizedUserId in localStorage, and the step that handles the
\* failure starts no recognition, PIN or voice step.
FaceFailures == {"capture", "noface", "unrecognised"}
StageFails ==
  \/ \E a \in DOMAIN face : face[a].res = "none" /\ face'[a].res \in FaceFailures
  \/ \E i \in DOMAIN verify :
       VerifyLive(i) /\ verify'[i].pc \in {"rejected", "silent"}

C4_FailureClearsSession ==
  [][StageFails =>
       /\ safeState' = "locked"
       /\ ls' = NoLs
       /\ attempt' = attempt
       /\ Len(verify') = Len(verify)
       /\ \A a \in DOMAIN face : FaceLive(a)' => FaceLive(a)
       /\ \A i \in DOMAIN verify : VerifyLive(i)' => VerifyLive(i)]_vars

\* the Verify handlers that went on to voice verification
InVoiceStage(i) == verify[i].pc \in {"timer", "analyze", "opened", "silent"}

\* C22: no verify-pin request is issued for a PIN of fewer than 4 digits, so
\* no such PIN leads to voice verification; and a Verify handler goes on to
\* voice verification only when the user it submitted has a stored pinHash
\* that the submitted PIN verifies against.
C22_ShortPinNeverAccepted ==
  \A i \in DOMAIN verify :
    /\ Len(verify[i].pin) >= 4
    /\ InVoiceStage(i) =>
         LET user == getUserById(users, verify[i].user)
         IN /\ user # NoRecord
            /\ user.pinHash # <<>>
            /\ verifyPassword(verify[i].pin, user.pinHash)
C22_Witness ==
  /\ Len(verify) = 1
  /\ verify[1].pc = "timer"
  /\ safeState = "unlocking"
  /\ pin = <<1, 2>>

\* C23: an attempt that is in the unlocking state eventually leaves it, also
\* when from some point on the operator gives no further input (the stage
\* then times out and safeState returns to locked).
C23_UnlockingEnds ==
  <>[][PageRuns]_vars => ((safeState = "unlocking") ~> (safeState # "unlocking"))

\* C24: the userId a Verify handler submits for PIN verification was stored
\* by the face match of the unlock attempt the click belongs to, never by
\* another attempt.
C24_UserIdOfSameAttempt ==
  \A i \in DOMAIN verify :
    /\ verify[i].faceAtt = verify[i].att
    /\ face[verify[i].att].res = "ok"
    /\ face[verify[i].att].uid = verify[i].user

\* C25: a verify-pin request is issued only once the face matcher has
\* succeeded in the current attempt; while the attempt is still scanning,
\* no Verify click issues one.
C25_PinOnlyAfterFaceMatch ==
  [][Len(verify') > Len(verify) => face[attempt].res = "ok"]_vars

\* C26: the unlock event and the actuator-open command are issued only for
\* an attempt that is still the current one and still unlocking; once it
\* has returned to locked or was abandoned for a new attempt, a voice timer
\* it left pending issues neither.
C26_NothingAfterAttemptEnded ==
  [][\A i \in DOMAIN verify :
       (/\ verify[i].pc = "analyze" /\ verify'[i].pc = "opened"
        /\ \/ Len(actuator') > Len(actuator)
           \/ Len(posted') > Len(posted))
       => (safeState = "unlocking" /\ verify[i].att = attempt)]_vars

LockPosts == Cardinality({k \in DOMAIN posted : posted[k].type = "lock"})

\* C13: every unlocked -> locked transition made by handleLock issues the
\* actuator lock command (ESP32 URL, angle -90), and the handleLock run logs
\* exactly one lock event once the actuator call has settled, also when that
\* call failed.
C13_LockLogged ==
  [][/\ (safeState = "unlocked" /\ safeState' = "locked"
           /\ lockPending' = lockPending + 1) =>
          /\ Len(actuator') = Len(actuator) + 1
          /\ actuator'[Len(actuator')].cmd = "lock"
     /\ (lockPending' = lockPending - 1 /\ reloads' = reloads) =>
          LockPosts' = LockPosts + 1]_vars

\* some fetch of the list settles in this step, or the awaited actuator call
\* of handleLock does
FetchSettles ==
  \/ \E k \in DOMAIN pendingFetch :
       /\ k \in DOMAIN pendingFetch'
       /\ pendingFetch[k].st = "pending"
       /\ pendingFetch'[k].st # "pending"
  \/ lockPending' = lockPending - 1
FailedFetch(kind) ==
  \E k \in DOMAIN pendingFetch : pendingFetch[k] = [kind |-> kind, st |-> "failed"]

\* C14: a failing actuator call or event POST neither blocks nor reverses a
\* decision: the step that analyses a recording with audio leaves the safe
\* unlocked, the Lock press leaves it locked, both before any of their
\* fetches has settled, and no settling fetch, resolved or rejected, changes
\* safeState.
C14_DecisionsNeverBlocked ==
  [][/\ (\E i \in DOMAIN verify : verify[i].pc = "analyze" /\ verify'[i].pc = "opened") =>
          safeState' = "unlocked"
     /\ lockPending' = lockPending + 1 => safeState' = "locked"
     /\ FetchSettles => safeState' = safeState]_vars
C14_Witness ==
  /\ safeState = "unlocked"
  /\ FailedFetch("open")
  /\ FailedFetch("unlock-event")

\* --------------------------------------------- face store, matcher: claims
\* the squared distance the matcher measures between the last query and the
\* k-th stored template
QueryDist(k) == SumSq(lastOp.descriptor, faces[k].descriptor, 1)

\* the stored templates strictly below the threshold for the last query
Candidates == {k \in DOMAIN faces : QueryDist(k) < Threshold * Threshold}

Abs(n) == IF n < 0 THEN -n ELSE n

\* C8: recognizeFaceFromDescriptor accepts a stored template only when its
\* distance to the query is strictly below 0.6: with a single stored template,
\* a query at distance 0.59 returns that template's userId and a query at
\* distance 0.60 or 0.61 returns null (one-component descriptors, where the
\* distance is the absolute difference).
C8_StrictThreshold ==
  (/\ lastOp.op = "recognize"
   /\ Len(faces) = 1
   /\ Len(lastOp.descriptor) = 1
   /\ Len(faces[1].descriptor) = 1) =>
    LET d == Abs(lastOp.descriptor[1] - faces[1].descriptor[1])
    IN /\ (d = Threshold - 1) => lastMatch.userId = faces[1].userId
       /\ (d \in {Threshold, Threshold + 1}) => lastMatch = NoMatch
       /\ (lastMatch # NoMatch) => d < Threshold

\* a single template, a query at distance 0.59, and the matcher returned it
C8_Witness ==
  /\ lastOp.op = "recognize"
  /\ Len(faces) = 1
  /\ Len(lastOp.descriptor) = 1
  /\ Len(faces[1].descriptor) = 1
  /\ Abs(lastOp.descriptor[1] - faces[1].descriptor[1]) = Threshold - 1
  /\ lastMatch.userId = faces[1].userId

\* C9: for every template store and query, recognizeFaceFromDescriptor returns
\* the template of minimum distance among those with distance < 0.6, the first
\* one in the store's order among several at that minimum, and null exactly
\* when no template is below 0.6.
C9_MinimumFirst ==
  (lastOp.op = "recognize") =>
    IF Candidates = {} THEN lastMatch = NoMatch
    ELSE LET k == CHOOSE c \in Candidates :
                    \A j \in Candidates :
                       \/ QueryDist(c) < QueryDist(j)
                       \/ (QueryDist(c) = QueryDist(j) /\ c <= j)
         IN lastMatch = [userId |-> faces[k].userId, distance |-> QueryDist(k)]

\* two templates at the same distance below the threshold, the first returned
C9_Witness ==
  /\ lastOp.op = "recognize"
  /\ Len(faces) = 2
  /\ Candidates = {1, 2}
  /\ QueryDist(1) = QueryDist(2)
  /\ QueryDist(1) > 0
  /\ lastMatch.userId = faces[1].userId

\* C10: saving for a userId that already has a template replaces it and leaves
\* the number of templates unchanged; after any sequence of saves the store
\* holds exactly one template per saved userId, the last one written.
C10_SaveReplaces ==
  /\ \A u \in StoreUsers :
       Cardinality({k \in DOMAIN faces : faces[k].userId = u})
         = IF lastSaved[u] = NoDesc THEN 0 ELSE 1
  /\ \A k \in DOMAIN faces : faces[k].descriptor = lastSaved[faces[k].userId]
  /\ (lastOp.op = "save" /\ lastOp.existed /\ lastOp.descriptor # NoDesc) =>
       Len(faces) = lastOp.lenBefore

\* a save over an existing, different template, another user's template stored
C10_Witness ==
  /\ lastOp.op = "save"
  /\ lastOp.existed
  /\ lastOp.descriptor # NoDesc
  /\ lastOp.prev # lastOp.descriptor
  /\ Len(faces) = 2
  /\ StoredDescriptor(faces, lastOp.userId) = lastOp.descriptor

\* ------------------------------------------------- sensor pipeline: claims
RECURSIVE SumField(_, _, _, _)
\* sum of one coordinate of rawAccel[from .. to]
SumField(axis, from, to, acc) ==
  IF from > to THEN acc
  ELSE SumField(axis, from + 1, to,
                acc + (CASE axis = "x" -> rawAccel[from].x
                         [] axis = "y" -> rawAccel[from].y
                         [] OTHER -> rawAccel[from].z))

\* C5: for every sequence of n >= 1 samples passed to smoothAccelerometer, the
\* z returned by the n-th call is the mean of the last min(5, n) raw z inputs
\* minus 5, and x and y are the plain means of the last min(5, n) raw x and y.
\* (equality of fractions, by cross-multiplication)
C5_MovingAverage ==
  LET n == Len(rawAccel)
      m == IF n < 5 THEN n ELSE 5
  IN n >= 1 =>
       /\ smoothed.n >= 1
       /\ smoothed.x * m = SumField("x", n - m + 1, n, 0) * smoothed.n
       /\ smoothed.y * m = SumField("y", n - m + 1, n, 0) * smoothed.n
       /\ smoothed.z * m = (SumField("z", n - m + 1, n, 0) - 5 * Scale * m) * smoothed.n

\* six samples have been smoothed, the first one (now outside the window)
\* differing from the mean of the five that follow it
C5_Witness ==
  /\ Len(rawAccel) = 6
  /\ rawAccel[1].z * 5 # SumField("z", 2, 6, 0)
  /\ rawAccel[1].x * 5 # SumField("x", 2, 6, 0)
  /\ smoothed.n = 5

\* the raw accelerometer magnitude of a sample exceeds 50
RawAbove50(data) ==
  data.accelerometer.x * data.accelerometer.x
  + data.accelerometer.y * data.accelerometer.y
  + data.accelerometer.z * data.accelerometer.z > (50 * Scale) * (50 * Scale)

TheftPosted(k) ==
  \E p \in DOMAIN dashPosted :
     dashPosted[p].type = "theft_detected" /\ dashPosted[p].sample = k

TheftAlerted(n) ==
  \E e \in DOMAIN emitted : emitted[e].event = "theft-alert" /\ emitted[e].n = n

\* C6: for every sample whose raw accelerometer magnitude exceeds 50,
\* handleSensorData posts a theft_detected event and the hub broadcasts a
\* theft-alert, whatever the movement cooldown timestamp and however recent an
\* earlier theft or movement event is (each for the samples that reach it: the
\* dashboard for all three producers, the hub for the Socket.io channel).
C6_TheftNeverDebounced ==
  /\ \A k \in DOMAIN handled : RawAbove50(handled[k].data) => TheftPosted(k)
  /\ received = Len(sensorDataStore)
  /\ \A n \in DOMAIN sensorDataStore :
       RawAbove50(sensorDataStore[n]) => TheftAlerted(n)

\* a second theft sample handled within the cooldown of a movement event logged
\* for an earlier theft sample: it is posted, and the hub alerted for both
C6_Witness ==
  \E j, k \in DOMAIN handled :
    /\ j < k
    /\ RawAbove50(handled[j].data) /\ RawAbove50(handled[k].data)
    /\ handled[k].last = handled[j].at
    /\ handled[k].at - handled[k].last < MOVEMENT_EVENT_COOLDOWN
    /\ TheftPosted(j) /\ TheftPosted(k)
    /\ handled[k].source = "socket.io"
    /\ TheftAlerted(1) /\ TheftAlerted(2)

\* a sample qualifies for movement detection
MovementQualifies(data) ==
  \/ data.accelerometer.x > 5 * Scale \/ data.accelerometer.x < -5 * Scale
  \/ data.accelerometer.y > 5 * Scale \/ data.accelerometer.y < -5 * Scale
  \/ data.gyroscope.x > 2 * Scale \/ data.gyroscope.x < -2 * Scale
  \/ data.gyroscope.y > 2 * Scale \/ data.gyroscope.y < -2 * Scale
  \/ data.gyroscope.z > 2 * Scale \/ data.gyroscope.z < -2 * Scale

MovementLogged(k) ==
  \E p \in DOMAIN dashPosted :
     dashPosted[p].type = "movement_detected" /\ dashPosted[p].sample = k

\* C7: of any two movement-qualifying samples handled less than 5000 ms apart,
\* from the same producer or from different ones, at most one has a
\* movement_detected event posted for it.
C7_OneMovementPerWindow ==
  \A i, j \in DOMAIN handled :
    (/\ i < j
     /\ MovementQualifies(handled[i].data)
     /\ MovementQualifies(handled[j].data)
     /\ handled[j].at - handled[i].at < 5000) =>
      ~(MovementLogged(i) /\ MovementLogged(j))

\* two qualifying samples of different producers 2501 ms apart, the first
\* logged and the second suppressed
C7_Witness ==
  \E i, j \in DOMAIN handled :
    /\ i < j
    /\ handled[i].source # handled[j].source
    /\ MovementQualifies(handled[i].data)
    /\ MovementQualifies(handled[j].data)
    /\ handled[j].at - handled[i].at = 2501
    /\ MovementLogged(i) /\ ~MovementLogged(j)

\* ------------------------------------------------------ API routes: claims
\* no template of the store before the call is below the threshold for the
\* descriptor of the last request
NoneBelow ==
  \A k \in DOMAIN lastCall.before.faces :
     SumSq(lastCall.body.descriptor, lastCall.before.faces[k].descriptor, 1)
       >= Threshold * Threshold

\* the entries of a log as a bag, whatever their order
LogBag(evs) ==
  [e \in {evs[k] : k \in DOMAIN evs} |-> Cardinality({k \in DOMAIN evs : evs[k] = e})]

\* C11: a recognition request that carries a descriptor and finds no template
\* below the threshold appends exactly one unauthorized_face event with a
\* reason in its metadata, and its 401 reply has no userId, userName or
\* distance field.
C11_DenialLoggedNoLeak ==
  (/\ lastCall.route = "recognize"
   /\ Has(lastCall.body, "descriptor")
   /\ NoneBelow) =>
    /\ Len(events) = Len(lastCall.before.events) + 1
    /\ LogBag(SubSeq(events, 1, Len(events) - 1)) = LogBag(lastCall.before.events)
    /\ events[Len(events)].type = "unauthorized_face"
    /\ events[Len(events)].reason # ""
    /\ lastCall.resp.status = 401
    /\ DOMAIN lastCall.resp \cap {"userId", "userName", "distance"} = {}

\* a denied recognition request against a store with a template, after an
\* earlier event was logged
C11_Witness ==
  /\ lastCall.route = "recognize"
  /\ Has(lastCall.body, "descriptor")
  /\ NoneBelow
  /\ lastCall.before.faces # <<>>
  /\ lastCall.before.events # <<>>
  /\ lastCall.resp.status = 401

\* the last request lacks a required input
MissingInput ==
  \/ lastCall.route = "recognize" /\ ~Has(lastCall.body, "descriptor")
  \/ /\ lastCall.route = "verify-pin"
     /\ ~(Has(lastCall.body, "userId") /\ Has(lastCall.body, "pin"))
  \/ lastCall.route = "register" /\ ~Has(lastCall.body, "userId")
  \/ /\ lastCall.route = "register"
     /\ Has(lastCall.body, "descriptor")
     /\ lastCall.body.descriptor = <<>>

\* C12: a request with a missing required input (recognise without descriptor,
\* verify-pin without userId or pin, register without userId, register with an
\* empty descriptor) is answered 400 and leaves users, faces and events as
\* they were.
C12_MissingInputRejected ==
  MissingInput =>
    /\ lastCall.resp.status = 400
    /\ users = lastCall.before.users
    /\ faces = lastCall.before.faces
    /\ events = lastCall.before.events

\* a register request with an empty descriptor was answered 400 against
\* stores that already hold a template and an event
C12_Witness ==
  /\ lastCall.route = "register"
  /\ Has(lastCall.body, "userId")
  /\ Has(lastCall.body, "descriptor")
  /\ lastCall.body.descriptor = <<>>
  /\ lastCall.resp.status = 400
  /\ lastCall.before.events # <<>>
  /\ faces = lastCall.before.faces /\ faces # <<>>
\* ------------------------------------------------------------- hub, claims
\* the samples the hub has received, in arrival order: the hub broadcasts
\* each one first thing after storing it
Broadcasts == SelectSeq(emitted, LAMBDA m : m.event = "sensor-data")
Arrivals == [k \in DOMAIN Broadcasts |-> Broadcasts[k].data]
LastOf(seq, n) ==
  IF Len(seq) <= n THEN seq ELSE SubSeq(seq, Len(seq) - n + 1, Len(seq))

IsAlert(m) == m.event \in {"theft-alert", "ghost-mode-alert"}

\* C16: a handler run for a sample adds to the hub's emissions exactly one
\* sensor-data broadcast of that sample, addressed to every socket connected
\* at that moment, followed only by alerts of that same sample; nothing
\* else emits. So broadcasts are in arrival order, one per sample, and a
\* sample's alerts lie between its broadcast and the next one.
C16_BroadcastOncePerSampleInOrder ==
  [][IF received' # received
     THEN /\ received' = received + 1
          /\ Len(emitted') > Len(emitted)
          /\ SubSeq(emitted', 1, Len(emitted)) = emitted
          /\ LET b == emitted'[Len(emitted) + 1]
             IN /\ b.event = "sensor-data"
                /\ b.n = received'
                /\ b.to = connected
                /\ b.data = sensorDataStore'[Len(sensorDataStore')]
          /\ \A k \in (Len(emitted) + 2)..Len(emitted') :
                IsAlert(emitted'[k]) /\ emitted'[k].n = received'
     ELSE emitted' = emitted]_vars
C16_Witness ==
  \E k \in DOMAIN emitted :
    /\ k + 2 \in DOMAIN emitted
    /\ emitted[k].event = "sensor-data"
    /\ emitted[k].to = HubSockets
    /\ IsAlert(emitted[k + 1])
    /\ emitted[k + 1].n = emitted[k].n
    /\ emitted[k + 2].event = "sensor-data"
    /\ emitted[k + 2].n = emitted[k].n + 1
    /\ emitted[k + 2].data # emitted[k].data
Malformed(data) == ~Has(data, "accelerometer") \/ ~Has(data, "gyroscope")

\* C17: a sensor-data message that lacks the accelerometer or the gyroscope
\* field is rejected on arrival: no such sample is in sensorDataStore, none
\* was broadcast, and no handler run ended in a thrown error.
C17_MalformedRejected ==
  /\ \A k \in DOMAIN sensorDataStore : ~Malformed(sensorDataStore[k])
  /\ \A k \in DOMAIN emitted : ~Malformed(emitted[k].data)
  /\ thrown = 0
\* ------------------------------------------------- smoothing window, claims
\* the samples of one producer that handleSensorData has run on, in order
\* (LastOf, defined with the hub's claims, takes the last n of a sequence)
SamplesOf(src) == SelectSeq(handled, LAMBDA h : h.source = src)

\* C18: the value smoothAccelerometer returns for a sample of the
\* accelerometer WebSocket is the mean (less 5 on z) of the last
\* min(5, n) samples of that WebSocket alone, n being how many it has sent.
C18_WindowOfOneProducer ==
  (handled # <<>> /\ handled[Len(handled)].source = "accel") =>
    LET w == LastOf(SamplesOf("accel"), bufferSize)
    IN /\ smoothed.n = Len(w)
       /\ smoothed.x = Sum([k \in DOMAIN w |-> w[k].data.accelerometer.x])
       /\ smoothed.y = Sum([k \in DOMAIN w |-> w[k].data.accelerometer.y])
       /\ smoothed.z = Sum([k \in DOMAIN w |-> w[k].data.accelerometer.z])
                         - ZOffset * Len(w)
\* ------------------------------------------------------ ghost mode, claims
Abs3Below(v, limit) ==
  /\ Abs(v.x) < limit
  /\ Abs(v.y) < limit
  /\ Abs(v.z) < limit
\* magnitude below 0.1 and each gyroscope axis below 0.1 in absolute value
GhostQualifies(data) ==
  /\ ~Malformed(data)
  /\ Magnitude2(data.accelerometer) < (Scale \div 10) * (Scale \div 10)
  /\ Abs3Below(data.gyroscope, Scale \div 10)
GhostAlerts(n) ==
  Cardinality({k \in DOMAIN emitted :
                 emitted[k].event = "ghost-mode-alert" /\ emitted[k].n = n})

\* C19: the hub has emitted one ghost-mode-alert for each received sample
\* whose accelerometer magnitude is below 0.1 and whose three gyroscope
\* axes are each below 0.1 in absolute value, and none for any other
\* sample; a qualifying sample right after another one gets its alert too.
C19_GhostAlertPerQualifyingSample ==
  \A k \in DOMAIN Broadcasts :
    GhostAlerts(Broadcasts[k].n) = IF GhostQualifies(Broadcasts[k].data) THEN 1 ELSE 0
C19_Witness ==
  /\ GhostQualifies(Arrivals[received])
  /\ GhostQualifies(Arrivals[received - 1])
  /\ GhostAlerts(received) = 1
  /\ GhostAlerts(received - 1) = 1
  /\ Arrivals[received].gyroscope # Arrivals[received - 1].gyroscope
\* ------------------------------------------------------ enrollment, claims
\* C20: after the register endpoint has answered 200 to a step for userId,
\* a user record with that id exists (created when it was missing) and holds
\* what the step sent: the face descriptor, the hash of the PIN, the phrase.
C20_StepUpdatesUserRecord ==
  (lastCall.route = "register" /\ lastCall.resp.status = 200) =>
    LET body == lastCall.body
        user == getUserById(users, body.userId)
    IN /\ user # NoRecord
       /\ HasDescriptor(body) =>
            /\ StoredDescriptor(faces, body.userId) = body.descriptor
            /\ user.faceDescriptor = body.descriptor
       /\ HasPin(body) => verifyPassword(body.pin, user.pinHash)
       /\ HasPhrase(body) => user.voicePhrase = body.voicePhrase
\* ------------------------------------------------------- setup flow, claims
\* the register requests the setup flow has sent
Sent(k) == Has(setupTasks[k], "body")

\* C21: within one setup session, every face registration request and every
\* PIN/phrase registration request carry the same userId.
C21_OneUserIdPerSession ==
  \A j, k \in DOMAIN setupTasks :
    (/\ Sent(j) /\ Sent(k)
     /\ setupTasks[j].kind = "face"
     /\ setupTasks[k].kind = "phrase"
     /\ setupTasks[j].session = setupTasks[k].session) =>
      setupTasks[j].body.userId = setupTasks[k].body.userId
C21_Witness ==
  /\ safeState = "locked"
  /\ \E j, k \in DOMAIN setupTasks :
       /\ setupTasks[j].kind = "face" /\ setupTasks[k].kind = "phrase"
       /\ setupTasks[j].session = 2 /\ setupTasks[k].session = 2
       /\ setupTasks[j].pc = "done" /\ setupTasks[j].st = 200
       /\ setupTasks[k].pc = "done" /\ setupTasks[k].st = 200
\* ------------------------------------------------------ prefix distance, claims
\* the squared Euclidean distance over the first min(|q|, |t|) components
PrefixDist2(q, t) ==
  LET m == IF Len(q) < Len(t) THEN Len(q) ELSE Len(t)
  IN Sum([k \in 1..m |-> (q[k] - t[k]) * (q[k] - t[k])])

\* C27: the recognise route matches on the Euclidean distance over the first
\* min(|query|, |template|) components: it answers 200 exactly when some
\* template is below the threshold on that distance and reports that
\* distance; so a query of length 0, which passes the presence check, is
\* at distance 0 from every template and is recognised as the first stored
\* one whenever the store is not empty.
C27_PrefixDistance ==
  (lastCall.route = "recognize" /\ Has(lastCall.body, "descriptor")) =>
    LET q == lastCall.body.descriptor
        fs == lastCall.before.faces
        resp == lastCall.resp
    IN /\ resp.status = 200 <=>
            \E k \in DOMAIN fs : PrefixDist2(q, fs[k].descriptor) < Threshold * Threshold
       /\ resp.status = 200 =>
            \E k \in DOMAIN fs :
              /\ fs[k].userId = resp.userId
              /\ resp.distance = PrefixDist2(q, fs[k].descriptor)
       /\ (q = <<>> /\ fs # <<>>) =>
            /\ resp.status = 200
            /\ resp.userId = fs[1].userId
            /\ resp.distance = 0
C27_Witness ==
  /\ lastCall.route = "recognize"
  /\ Has(lastCall.body, "descriptor")
  /\ lastCall.body.descriptor = <<>>
  /\ Len(lastCall.before.faces) = 2
  /\ lastCall.before.faces[1].descriptor = <<60>>
  /\ lastCall.resp.status = 200
  /\ lastCall.resp.userId = "u1"

\* the token is missing, was not signed with the server's key, has expired, or
\* carries no admin flag
BadToken(token) ==
  \/ token = NoToken
  \/ token.signedWith # "JWT_SECRET"
  \/ token.expired
  \/ ~token.payload.isAdmin

\* C28: an admin operation (list events, list / create / update / delete
\* users) called with a missing, invalid or non-admin token answers 401 and
\* leaves users, templates and events as they were.
C28_UnauthorisedRejected ==
  [][(/\ lastCall' # lastCall
      /\ lastCall'.route = "admin"
      /\ BadToken(lastCall'.token))
     => (/\ lastCall'.resp.status = 401
         /\ UNCHANGED <<users, faces, events>>)]_vars

\* a delete of an existing user refused for a forged admin token
C28_Witness ==
  /\ lastCall.route = "admin"
  /\ lastCall.call = [op |-> "users.delete", id |-> "u1"]
  /\ lastCall.token = Jwt("other-key", FALSE, "u1", TRUE)
  /\ lastCall.resp.status = 401
  /\ getUserById(users, "u1") # NoRecord

\* C29: recognition reads the template set as it is when the request runs: a
\* user whose DELETE succeeded has no template and is never returned, and a
\* query equal to a saved template is matched at distance 0.
C29_RecognitionReadsCurrentTemplates ==
  /\ \A u \in StoreUsers :
       (lastSaved[u] = NoDesc) <=> (\A k \in DOMAIN faces : faces[k].userId # u)
  /\ \A k \in DOMAIN faces : faces[k].descriptor = lastSaved[faces[k].userId]
  /\ (lastCall.route = "recognize" /\ HasDescriptor(lastCall.body)) =>
       LET fs == lastCall.before.faces
           q == lastCall.body.descriptor
           r == lastCall.resp
       IN /\ r.status = 200 => \E k \in DOMAIN fs : fs[k].userId = r.userId
          /\ (\E k \in DOMAIN fs : fs[k].descriptor = q) =>
               (r.status = 200 /\ r.distance = 0)

\* u1's own descriptor is refused once the DELETE of u1 has succeeded
C29_Witness ==
  /\ lastCall.route = "recognize"
  /\ lastCall.body = [descriptor |-> <<0, 0>>]
  /\ lastCall.before.users = <<>>
  /\ lastCall.before.faces = <<>>
  /\ lastCall.resp.status = 401

\* a query equal to the template just saved for u2 is matched at distance 0
C29_WitnessSaved ==
  /\ lastCall.route = "recognize"
  /\ lastCall.body = [descriptor |-> <<200>>]
  /\ lastSaved["u2"] = <<200>>
  /\ lastCall.resp.status = 200
  /\ lastCall.resp.userId = "u2"
  /\ lastCall.resp.distance = 0

\* C30: the smoother is restartable: the first smoothed value computed after
\* a producer has disconnected and reconnected is the value of the first
\* sample received after the reconnect alone (the three queues start empty).
C30_FreshQueuesOnReconnect ==
  (Len(handled) = joinedAt + 1) =>
    LET a == handled[Len(handled)].data.accelerometer
    IN smoothed = bufferAverage(pushBuffer([x |-> <<>>, y |-> <<>>, z |-> <<>>],
                                           a.x, a.y, a.z))

\* C31: a request for an /admin path other than /admin/login that carries no
\* valid admin token is not served the page it asked for: it is redirected to
\* the login page.
C31_DashboardNeedsAdminToken ==
  (/\ lastCall.route = "page"
   /\ lastCall.pathname # LoginPath
   /\ BadToken(lastCall.token))
  => lastCall.resp.served = LoginPath

\* ------------------------------------------------ movement events, claims
\* the five axes movement detection looks at, with the limit of each
MovementAxes(data) ==
  { [name |-> "accelX", v |-> data.accelerometer.x, limit |-> 5 * Scale],
    [name |-> "accelY", v |-> data.accelerometer.y, limit |-> 5 * Scale],
    [name |-> "gyroX", v |-> data.gyroscope.x, limit |-> 2 * Scale],
    [name |-> "gyroY", v |-> data.gyroscope.y, limit |-> 2 * Scale],
    [name |-> "gyroZ", v |-> data.gyroscope.z, limit |-> 2 * Scale] }

\* an entry for each axis whose absolute value is over its limit
ExceededAxes(data) ==
  { <<ax.name, ax.v>> : ax \in { b \in MovementAxes(data) : Abs(b.v) > b.limit } }

\* the samples before sample k for which a movement event was logged
LoggedBefore(k) == { j \in 1..(k - 1) : MovementLogged(j) }
LatestOf(S) == CHOOSE j \in S : \A i \in S : i <= j

\* more than 5000 ms lie between sample k and the last movement event logged
\* before it (none logged yet: the dashboard has just started)
CooldownElapsed(k) ==
  \/ LoggedBefore(k) = {}
  \/ handled[k].at - handled[LatestOf(LoggedBefore(k))].at > 5000

\* C32: a movement_detected event is logged for a sample exactly when one of
\* |accel.x| > 5, |accel.y| > 5, |gyro.x| > 2, |gyro.y| > 2, |gyro.z| > 2 holds
\* for the raw sample and more than 5000 ms have passed since the last logged
\* movement event; its metadata has an entry for each axis that exceeded its
\* threshold and for no other axis.
C32_MovementLoggedExactlyWhen ==
  \A k \in DOMAIN handled :
    /\ MovementLogged(k) <=>
         (ExceededAxes(handled[k].data) # {} /\ CooldownElapsed(k))
    /\ \A p \in DOMAIN dashPosted :
         (dashPosted[p].type = "movement_detected" /\ dashPosted[p].sample = k) =>
           dashPosted[p].metadata = ExceededAxes(handled[k].data)

\* a sample over the limit on two axes logged with both, then a gyroscope
\* sample exactly 5000 ms later suppressed
C32_Witness ==
  \E j, k \in DOMAIN handled :
    /\ j < k
    /\ \E p \in DOMAIN dashPosted :
         /\ dashPosted[p].type = "movement_detected"
         /\ dashPosted[p].sample = j
         /\ dashPosted[p].metadata = {<<"accelX", 3000>>, <<"accelY", 4000>>}
    /\ handled[k].source = "gyro"
    /\ handled[k].at - handled[j].at = 5000
    /\ ~MovementLogged(k)

\* C38: the cooldown runs from the last logged movement event and suppressed
\* samples do not extend it: a qualifying sample handled more than 5000 ms
\* after the last logged movement event is logged, and so is the first
\* qualifying sample after the dashboard starts.
C38_CooldownFromLastLogged ==
  \A k \in DOMAIN handled :
    (MovementQualifies(handled[k].data) /\ CooldownElapsed(k)) => MovementLogged(k)

\* logged, suppressed 2501 ms later, logged again 2501 ms after that
C38_Witness ==
  /\ Len(handled) = 3
  /\ \A k \in 1..3 : MovementQualifies(handled[k].data)
  /\ handled[2].at - handled[1].at = 2501
  /\ handled[3].at - handled[2].at = 2501
  /\ MovementLogged(1) /\ ~MovementLogged(2) /\ MovementLogged(3)

\* C33: whenever safeState is locked, the most recent actuator command the
\* client issued, if any, is the lock command (stated for a page that has not
\* been reloaded, so that safeState and the commands belong to one page life).
C33_LockedAfterLockCommand ==
  (reloads = 0 /\ safeState = "locked" /\ actuator # <<>>) =>
    actuator[Len(actuator)].cmd = "lock"

\* ------------------------------------------- overlapping storage calls, claims
\* the createEvent calls that have returned
Returned == { i \in DOMAIN calls : calls[i].op = "createEvent" /\ calls[i].pc = "done" }
\* the event of call i is in the log
InLog(i) == \E k \in DOMAIN events : events[k].att = i
\* call j read the log before call i wrote it and wrote its own array afterwards
Overwrote(j, i) ==
  /\ calls[j].op = "createEvent"
  /\ calls[j].readAt > 0 /\ calls[j].readAt < calls[i].wroteAt
  /\ calls[j].wroteAt > calls[i].wroteAt

\* C34 as stated: every createEvent call that has returned has its event in
\* the log, in every later state and for every interleaving.
C34_NoEventLost == \A i \in Returned : InLog(i)

\* C34 amended: the last write wins.  An event of a call that has returned is
\* missing from the log only if another createEvent call read the log before
\* that call wrote it and wrote afterwards; calls that do not overlap lose
\* nothing.
C34_LostOnlyToOverlappingWriter ==
  \A i \in Returned : InLog(i) \/ \E j \in DOMAIN calls : Overwrote(j, i)

\* three calls have returned: the first two overlapped and the first one's
\* event is gone, the third ran after both and kept the second's event
C34_Witness ==
  /\ Returned = {1, 2, 3}
  /\ Overwrote(2, 1)
  /\ calls[3].readAt > calls[2].wroteAt
  /\ ~InLog(1) /\ InLog(2) /\ InLog(3)

\* C35: in every reachable state, with saveFaceData and deleteFaceData calls
\* overlapping at their reads and writes, the face store holds at most one
\* template per userId.
C35_OneTemplatePerUser ==
  \A j, k \in DOMAIN faces : faces[j].userId = faces[k].userId => j = k

\* two saves for u2 that both read the store before either wrote it, and a
\* delete that read it between the two writes; all three have returned
C35_Witness ==
  /\ Len(calls) = 3
  /\ \A i \in DOMAIN calls : calls[i].pc = "done"
  /\ \E a, b, d \in DOMAIN calls :
       /\ calls[a].op = "saveFaceData" /\ calls[b].op = "saveFaceData" /\ a # b
       /\ calls[d].op = "deleteFaceData"
       /\ calls[b].readAt < calls[a].wroteAt
       /\ calls[a].wroteAt < calls[d].readAt
       /\ calls[d].readAt < calls[b].wroteAt
       /\ calls[b].wroteAt < calls[d].wroteAt
  /\ Len(faces) = 1

\* ---------------------------------------------------- enrolment, claims
\* session n reported completion: its PIN/phrase request was answered ok and
\* the page went back to locked
Completed(n) ==
  \E k \in DOMAIN setupTasks :
     /\ setupTasks[k].kind = "phrase" /\ setupTasks[k].session = n
     /\ setupTasks[k].pc = "done" /\ setupTasks[k].st = 200

\* C36: a second setup session on the same client, started after an earlier
\* one completed, stores its credentials under a userId of its own: no two
\* completed sessions registered their faces under the same userId.
C36_SessionsDoNotShareUserId ==
  \A j, k \in DOMAIN setupTasks :
    (/\ setupTasks[j].kind = "face" /\ setupTasks[k].kind = "face"
     /\ setupTasks[j].st = 200 /\ setupTasks[k].st = 200
     /\ setupTasks[j].session < setupTasks[k].session
     /\ Completed(setupTasks[j].session)
     /\ Completed(setupTasks[k].session)) =>
      setupTasks[j].body.userId # setupTasks[k].body.userId

\* C37: when the setup flow has reported completion for a userId, the store
\* holds a face template for it and a user record with a pinHash and a
\* non-empty voicePhrase.
C37_CompletionMeansEnrolled ==
  \A k \in DOMAIN setupTasks :
    (/\ setupTasks[k].kind = "phrase"
     /\ setupTasks[k].pc = "done"
     /\ setupTasks[k].st = 200) =>
      LET u == setupTasks[k].body.userId
          user == getUserById(users, u)
      IN /\ \E f \in DOMAIN faces : faces[f].userId = u
         /\ user # NoRecord
         /\ user.pinHash # <<>>
         /\ user.voicePhrase # ""
====
